---- MODULE Spec2Model ----
(***************************************************************************)
(* The local partitioned time-series stores of aiseed-tool:                *)
(*   - server/storage/parquet_store.py: one Parquet file per calendar      *)
(*     month inside a stream directory (append_records, read_range, ...);  *)
(*   - climate-server/storage/netcdf_store.py: one NetCDF file per         *)
(*     location (save_daily, load, load_range, ...).                       *)
(* The state is the content of the storage directories plus the           *)
(* call that has just run (its arguments and what it returned or raised).  *)
(***************************************************************************)
EXTENDS Integers, Sequences, FiniteSets, TLC

VARIABLES
    proc,    \* which process the behaviour is of: "server", "climate", or
             \* "script" (a run of scripts/collect_presets.py)
    pqDir,   \* base_dir.exists() of the Parquet stream directory
    pq,      \* month key -> content of base_dir/<month key>.parquet; where
             \* several stream directories are in play (the stations of AMeDAS,
             \* the sensor directory), directory -> month key -> content
    nc,      \* location key -> content of data_dir/<location key>.nc
    ncDir,   \* whether the data directory of the NetCDF store exists
    call,    \* the call that has just run and whose outcome its caller is being
             \* handed (operation, arguments, result or error); NoCall when idle
    tasks,   \* task of the event loop -> where it is in its handler, the
             \* record it stores, the partition file it has read
    running  \* the task the event loop is running, "none" when it is free

vars == <<proc, pqDir, pq, nc, ncDir, call, tasks, running>>

(***************************************************************************)
(* Bounds of the model.                                                    *)
(***************************************************************************)
\* Longest time axis of a dataset handed to save_daily.
MaxBatch == 3

\* Longest list of records handed to append_records.
MaxRecords == 2

(***************************************************************************)
(* Values.  A field value is a number or missing (None / NaN).             *)
(***************************************************************************)
Null == "null"

Fields == {"temp", "hum"}


(***************************************************************************)
(* Time of the Parquet store: hours since 2023-01-01T00:00Z.               *)
(*   743  = 2023-01-31T23:00Z      745  = 2023-02-01T01:00Z                *)
(*   1415 = 2023-02-28T23:00Z                                              *)
(***************************************************************************)
PqTimes == {743, 745, 1415}

DaysInMonth == <<31, 28, 31, 30, 31, 30, 31, 31, 30, 31, 30, 31>>

RECURSIVE MonthFrom(_, _)
MonthFrom(day, m) ==
    IF m >= 12 \/ day < DaysInMonth[m] THEN m
    ELSE MonthFrom(day - DaysInMonth[m], m + 1)

\* dt.strftime("%Y-%m") / dt.to_period("M"): the calendar month (1..12 of 2023).
month_key(t) == MonthFrom(t \div 24, 1)

Months == {month_key(t) : t \in PqTimes}

(***************************************************************************)
(* The timestamp a record carries: an ISO-8601 string with a UTC offset     *)
(* (wall clock in hours since 2023-01-01T00:00 and offset in hours), None,  *)
(* or a string that is no date.                                            *)
(***************************************************************************)
Iso(wall, off) == [kind |-> "iso", wall |-> wall, off |-> off]

NoTime == [kind |-> "none", wall |-> 0, off |-> 0]

BadTime == [kind |-> "bad", wall |-> 0, off |-> 0]

\* pd.NaT, the missing timestamp.
NaT == 0 - 1

\* Faulty variant of to_datetime: the offset is ignored (local wall clock).
to_datetime_wall(ts) == IF ts.kind = "iso" THEN ts.wall ELSE NaT

\* pd.to_datetime(value, utc=True) of a value it accepts: the UTC instant.
to_datetime(ts) == IF ts.kind = "iso" THEN ts.wall - ts.off ELSE NaT

\* pd.to_datetime raises on a string that is no date.
NotADate(ts) == ts.kind = "bad"

(***************************************************************************)
(* Files.  A path holds nothing, an unparsable file (a torn write), or a   *)
(* table: its columns and its rows in stored order.                        *)
(***************************************************************************)
Absent == [st |-> "absent", cols |-> {}, rows |-> <<>>]

Torn == [st |-> "torn", cols |-> {}, rows |-> <<>>]

Table(cols, rows) == [st |-> "ok", cols |-> cols, rows |-> rows]

Row(t, v) == [t |-> t, v |-> v]

\* Faulty variant of Unparsable: a file that cannot be parsed is taken as new.
UnparsableIgnored(file) == FALSE

\* pd.read_parquet(path) / xr.open_dataset(path) raises on this file.
Unparsable(file) == file.st = "torn"

SeqTimes(rows) == [i \in 1..Len(rows) |-> rows[i].t]

TimeSet(rows) == {rows[i].t : i \in 1..Len(rows)}

Range(s) == {s[i] : i \in 1..Len(s)}

\* Sequences over S of length at most n.
RECURSIVE SeqsUpTo(_, _)
SeqsUpTo(S, n) ==
    IF n = 0 THEN {<<>>}
    ELSE LET shorter == SeqsUpTo(S, n - 1)
         IN  shorter \cup {Append(s, x) : s \in {q \in shorter : Len(q) = n - 1}, x \in S}

\* Stable insertion of row r into rows already sorted by time.
RECURSIVE InsertSorted(_, _)
InsertSorted(rows, r) ==
    IF rows = <<>> THEN <<r>>
    ELSE IF rows[Len(rows)].t <= r.t THEN Append(rows, r)
    ELSE Append(InsertSorted(SubSeq(rows, 1, Len(rows) - 1), r), rows[Len(rows)])

RECURSIVE SortFrom(_, _)
SortFrom(rows, acc) ==
    IF rows = <<>> THEN acc
    ELSE SortFrom(Tail(rows), InsertSorted(acc, Head(rows)))

\* Faulty variant of sort_by_time: the rows stay in the order they come.
sort_by_time_none(rows) == rows

\* df.sort_values(time_col) / ds.sortby("time"): ascending by time; rows of
\* equal time keep their order (the frames here are far below the size at
\* which the sort stops being an insertion sort).
sort_by_time(rows) == SortFrom(rows, <<>>)

IsSorted(rows) == \A i \in 1..(Len(rows) - 1) : rows[i].t <= rows[i + 1].t

NoDupTimes(rows) == \A i, j \in 1..Len(rows) : rows[i].t = rows[j].t => i = j

(***************************************************************************)
(* What a call leaves in `call`.                                           *)
(***************************************************************************)
\* pd.DataFrame() / a frame or dataset handed back by a read.
Frame(cols, rows) == [st |-> "ok", cols |-> cols, rows |-> rows]

EmptyFrame == Frame({}, <<>>)

\* A read that returned None.
NoneResult == [st |-> "none", cols |-> {}, rows |-> <<>>]

NoCall ==
    [op |-> "none", key |-> "", batch |-> <<>>, lo |-> 0, hi |-> 0, want |-> {},
     st |-> "ok", err |-> "", n |-> 0, out |-> NoneResult]

(***************************************************************************)
(* What can go wrong at a write of a partition file.                       *)
(*   open_denied    the file cannot be opened for writing: the call raises *)
(*                  and the file is as before;                             *)
(*   write_torn     the write fails after the file was opened (disk full): *)
(*                  the call raises, the partial file stays (the writers   *)
(*                  are handed the opened file and do not remove it);      *)
(*   killed         the process dies during the write: a partial file      *)
(*                  stays and the call never returns;                      *)
(*   killed_before  the process dies before the write begins (between two  *)
(*                  monthly groups): the file is as before.                *)
(***************************************************************************)
NoFault == [at |-> 0, how |-> "none"]

PqFaults ==
    {NoFault} \cup
    [at : 1..Cardinality(Months),
     how : {"open_denied", "write_torn", "killed", "killed_before"}]

\* The file a failed write leaves at the path.
AfterFault(how, before) ==
    CASE how = "open_denied"   -> before
      [] how = "killed_before" -> before
      [] OTHER                 -> Torn

FaultStatus(how) == IF how \in {"killed", "killed_before"} THEN "crash" ELSE "error"

(***************************************************************************)
(* parquet_store.append_records                                            *)
(***************************************************************************)
PA == [keys |-> {"temp", "hum"}, v |-> [temp |-> "v10", hum |-> "v5"]]

PB == [keys |-> {"temp"}, v |-> [temp |-> "v12", hum |-> Null]]

\* The timestamps of the records: 2023-02-01T08:00+09:00 (= 2023-01-31T23:00Z),
\* 2023-02-01T01:00Z and 2023-02-28T23:00Z.
RawTimes == {Iso(752, 9), Iso(745, 0), Iso(1415, 0)}

\* The records the fetchers hand over: a first reading of every instant, and
\* a second, different reading of 2023-02-01T01:00Z (a re-fetch, or another
\* device polled at the same instant).
Records == {r \in [ts : RawTimes, p : {PA, PB}] : r.p = PB => r.ts = Iso(745, 0)}

Batches == SeqsUpTo(Records, MaxRecords)

\* Lines 41-52: pd.DataFrame(records), the columns being the keys of all the
\* dicts, with the time column converted by pd.to_datetime(..., utc=True).
DataFrame(records) ==
    [cols |-> UNION {records[i].p.keys : i \in 1..Len(records)},
     rows |-> [i \in 1..Len(records) |->
                  Row(to_datetime(records[i].ts), records[i].p.v)]]

\* The month keys of the rows in ascending order, as groupby yields them.
RECURSIVE SortedMonths(_)
SortedMonths(ms) ==
    IF ms = {} THEN <<>>
    ELSE LET m == CHOOSE x \in ms : \A y \in ms : x <= y
         IN  <<m>> \o SortedMonths(ms \ {m})

Group(rows, m) == SelectSeq(rows, LAMBDA r : r.t # NaT /\ month_key(r.t) = m)

\* The keys groupby yields, ascending; rows whose key is NaT are in no group.
GroupKeys(df) ==
    SortedMonths({month_key(r.t) : r \in {x \in Range(df.rows) : x.t # NaT}})

\* Faulty variant of MergeGroup: the group is appended without looking at the
\* timestamps already stored.
MergeGroupAppendAll(existing, df, group) ==
    IF existing.st = "ok"
    THEN [skip |-> FALSE,
          merged |-> [cols |-> existing.cols \cup df.cols,
                      rows |-> existing.rows \o group]]
    ELSE [skip |-> FALSE, merged |-> [cols |-> df.cols, rows |-> group]]

\* Lines 59-69: what is to be written for one month; skip = the `continue`.
MergeGroup(existing, df, group) ==
    IF existing.st = "ok"
    THEN LET df_append == SelectSeq(group, LAMBDA r : r.t \notin TimeSet(existing.rows))
         IN  [skip |-> df_append = <<>>,
              merged |-> [cols |-> existing.cols \cup df.cols,
                          rows |-> existing.rows \o df_append]]
    ELSE [skip |-> FALSE, merged |-> [cols |-> df.cols, rows |-> group]]

\* Line 73: total += len(group).
Counted(existing, group) == Len(group)

\* The loop of lines 56-73 over the months still to do; w counts the writes.
RECURSIVE AppendLoop(_, _, _, _, _, _)
AppendLoop(ms, df, files, total, w, fault) ==
    IF ms = <<>> THEN [pq |-> files, st |-> "ok", err |-> "", n |-> total]
    ELSE
      LET m == Head(ms)
          group == Group(df.rows, m)
          existing == files[m]
      IN  IF Unparsable(existing)
          THEN [pq |-> files, st |-> "error", err |-> "corrupt", n |-> 0]
          ELSE
            LET mg == MergeGroup(existing, df, group)
            IN  IF mg.skip
                THEN AppendLoop(Tail(ms), df, files, total, w, fault)
                ELSE IF fault.at = w + 1
                THEN [pq |-> [files EXCEPT ![m] = AfterFault(fault.how, existing)],
                      st |-> FaultStatus(fault.how), err |-> "io", n |-> 0]
                ELSE AppendLoop(Tail(ms), df,
                        [files EXCEPT ![m] = Table(mg.merged.cols,
                                                   sort_by_time(mg.merged.rows))],
                        total + Counted(existing, group), w + 1, fault)

\* The number of to_parquet calls a fault-free run of the batch makes.
RECURSIVE Writes(_, _, _)
Writes(ms, df, files) ==
    IF ms = <<>> THEN 0
    ELSE LET existing == files[Head(ms)]
         IN  IF Unparsable(existing) THEN 0
             ELSE (IF MergeGroup(existing, df, Group(df.rows, Head(ms))).skip THEN 0 ELSE 1)
                  + Writes(Tail(ms), df, files)

append_records(records, files, fault) ==
    IF records = <<>> THEN [pq |-> files, st |-> "ok", err |-> "", n |-> 0]
    ELSE IF \E i \in 1..Len(records) : NotADate(records[i].ts)
    THEN [pq |-> files, st |-> "error", err |-> "parse", n |-> 0]
    ELSE LET df == DataFrame(records)
         IN  AppendLoop(GroupKeys(df), df, files, 0, 0, fault)

\* The number of to_parquet calls the batch gets to when nothing fails.
WritesOf(records, files) ==
    IF \E i \in 1..Len(records) : NotADate(records[i].ts) THEN 0
    ELSE Writes(GroupKeys(DataFrame(records)), DataFrame(records), files)

AppendBatch(batches, faults) ==
    /\ proc = "server"
    /\ call = NoCall
    /\ \E records \in batches :
         \E fault \in LET w == WritesOf(records, pq) IN {f \in faults : f.at <= w} :
           \E res \in {append_records(records, pq, fault)} :
             /\ pq' = res.pq
             /\ pqDir' = (pqDir \/ records # <<>>)
             /\ call' = [NoCall EXCEPT !.op = "append_records", !.batch = records,
                            !.st = res.st, !.err = res.err, !.n = res.n]
    /\ UNCHANGED <<tasks, running, proc, nc, ncDir>>

AppendRecords == AppendBatch(Batches, PqFaults)

(***************************************************************************)
(* Readings whose timestamp is not checked before they reach                *)
(* append_records: the SwitchBot handler passes `recorded_at` of the        *)
(* request on, the scheduler the records of poll_all_devices.              *)
(***************************************************************************)
\* A reading all of whose values are missing.
PN == [keys |-> {"temp", "hum"}, v |-> [temp |-> Null, hum |-> Null]]

RawRecords ==
    {[ts |-> Iso(752, 9), p |-> PA], [ts |-> Iso(745, 0), p |-> PN],
     [ts |-> NoTime, p |-> PA], [ts |-> BadTime, p |-> PA]}

RawBatches == SeqsUpTo(RawRecords, MaxRecords)

StoreReadings == AppendBatch(RawBatches, {NoFault})

(***************************************************************************)
(* parquet_store.read_range                                                *)
(* start and end are naive datetimes, taken as UTC by                      *)
(* pd.Timestamp(start, tz="UTC").                                          *)
(***************************************************************************)
\* Faulty variant of StepDays: a step of the longest month.
StepDaysMonth == 28 + 3

\* current += pd.Timedelta(days=28)
StepDays == 28

\* The instants a caller asks a range between.
RangeEnds == {743, 744, 1415, 1416}

\* Lines 118-123: the month files a range covers.
RECURSIVE RangeMonths(_, _, _)
RangeMonths(current, end, months) ==
    IF current <= end
    THEN RangeMonths(current + StepDays * 24, end, months \cup {month_key(current)})
    ELSE months \cup {month_key(end)}

\* The number of times the body of the loop of lines 120-122 runs.
RECURSIVE RangeSteps(_, _)
RangeSteps(current, end) ==
    IF current <= end THEN 1 + RangeSteps(current + StepDays * 24, end) ELSE 0

\* pd.concat(frames, ignore_index=True) over the files of `ms`, in order.
RECURSIVE ConcatFiles(_, _)
ConcatFiles(ms, files) ==
    IF ms = <<>> THEN [cols |-> {}, rows |-> <<>>]
    ELSE LET rest == ConcatFiles(Tail(ms), files)
             f == files[Head(ms)]
         IN  [cols |-> f.cols \cup rest.cols, rows |-> f.rows \o rest.rows]

\* Faulty variant of InRange: the end of the range is excluded.
InRangeOpenEnd(t, start, end) == start <= t /\ t < end

\* Line 136: (df[time_col] >= start_ts) & (df[time_col] <= end_ts).
InRange(t, start, end) == start <= t /\ t <= end

read_range(dirExists, files, start, end) ==
    IF ~dirExists THEN [st |-> "ok", err |-> "", out |-> EmptyFrame]
    ELSE
      LET months == RangeMonths(start, end, {})
          found == SortedMonths({m \in months \cap DOMAIN files : files[m].st # "absent"})
      IN  IF \E m \in Range(found) : Unparsable(files[m])
          THEN [st |-> "error", err |-> "corrupt", out |-> NoneResult]
          ELSE IF found = <<>> THEN [st |-> "ok", err |-> "", out |-> EmptyFrame]
          ELSE LET df == ConcatFiles(found, files)
                   kept == SelectSeq(df.rows, LAMBDA r : InRange(r.t, start, end))
               IN  [st |-> "ok", err |-> "", out |-> Frame(df.cols, sort_by_time(kept))]

ReadRangeBetween(ends) ==
    /\ proc = "server"
    /\ call = NoCall
    /\ \E start \in ends, end \in ends :
         \E res \in {read_range(pqDir, pq, start, end)} :
           call' = [NoCall EXCEPT !.op = "read_range", !.lo = start, !.hi = end,
                       !.st = res.st, !.err = res.err, !.out = res.out]
    /\ UNCHANGED <<tasks, running, proc, pqDir, pq, nc, ncDir>>

ReadRange == ReadRangeBetween(RangeEnds)

(***************************************************************************)
(* Range reads of a stream that has been collected for the whole of 2023.  *)
(***************************************************************************)
YearMonths == 1..12

\* The days of the year before month m.
RECURSIVE DaysBefore(_)
DaysBefore(m) == IF m = 1 THEN 0 ELSE DaysBefore(m - 1) + DaysInMonth[m - 1]

FirstHour(m) == DaysBefore(m) * 24

LastHour(m) == (DaysBefore(m) + DaysInMonth[m]) * 24 - 1

\* The instants a caller asks a range between: the first and the last hour of
\* every month.
YearEnds == {FirstHour(m) : m \in YearMonths} \cup {LastHour(m) : m \in YearMonths}

\* One reading in the middle of every month (the 15th, 00:00Z).
YearStore ==
    [m \in YearMonths |-> Table({"temp"}, <<Row(FirstHour(m) + 14 * 24, PB.v)>>)]

ReadYear == ReadRangeBetween(YearEnds)

(***************************************************************************)
(* netcdf_store.save_daily                                                 *)
(* Time of the NetCDF store: the day number (1 = 2023-06-01).              *)
(***************************************************************************)
NcDays == {1, 2, 3}

\* The location keys (rounded latitude_longitude).
Locations == {"35.68_139.77"}

\* Faulty variant of data_dir: the directory is taken as it is found.
data_dir_as_found(exists) == exists

\* _data_dir(), called by _nc_path for every path: d.mkdir(parents=True,
\* exist_ok=True); the directory exists afterwards, whether it did or not.
data_dir(exists) == TRUE

\* The daily rows the fetchers hand over: a first reading of every day and a
\* second reading of day 2 that lacks "hum".
NcRecords == {r \in [t : NcDays, p : {PA, PB}] : r.p = PB => r.t = 2}

\* The datasets ds_new: any order of the time axis, days possibly repeated.
Datasets == SeqsUpTo(NcRecords, MaxBatch)

\* The xr.Dataset of a sequence of daily rows: its data variables and rows.
Dataset(records) ==
    [cols |-> UNION {records[i].p.keys : i \in 1..Len(records)},
     rows |-> [i \in 1..Len(records) |-> Row(records[i].t, records[i].p.v)]]

NcFaults == {NoFault} \cup [at : {1}, how : {"open_denied", "write_torn", "killed"}]

HasDupTimes(rows) == ~NoDupTimes(rows)

RowAt(rows, t) == rows[CHOOSE i \in 1..Len(rows) : rows[i].t = t]

\* Faulty variant of FillValues: the values of `new` are taken as they are.
FillValuesNew(new, old) == new

\* fillna: the value of `new` where it is not missing, else the value of `old`.
FillValues(new, old) == [f \in Fields |-> IF new[f] # Null THEN new[f] ELSE old[f]]

AllNull == [f \in Fields |-> Null]

RECURSIVE SortedTimes(_)
SortedTimes(ts) ==
    IF ts = {} THEN <<>>
    ELSE LET t == CHOOSE x \in ts : \A y \in ts : x <= y
         IN  <<t>> \o SortedTimes(ts \ {t})

\* ds_new.combine_first(ds_existing): an outer join on time, then fillna.
\* Equal time axes are combined position by position; otherwise both are
\* reindexed to the union of the axes, which raises when an axis repeats a day.
combine_first(new, old) ==
    IF SeqTimes(new.rows) = SeqTimes(old.rows)
    THEN [ok |-> TRUE, cols |-> new.cols \cup old.cols,
          rows |-> [i \in 1..Len(new.rows) |->
                       Row(new.rows[i].t, FillValues(new.rows[i].v, old.rows[i].v))]]
    ELSE IF HasDupTimes(new.rows) \/ HasDupTimes(old.rows)
    THEN [ok |-> FALSE, cols |-> {}, rows |-> <<>>]
    ELSE LET axis == SortedTimes(TimeSet(new.rows) \cup TimeSet(old.rows))
             ValuesAt(ds, t) == IF t \in TimeSet(ds.rows) THEN RowAt(ds.rows, t).v ELSE AllNull
         IN  [ok |-> TRUE, cols |-> new.cols \cup old.cols,
              rows |-> [i \in 1..Len(axis) |->
                           Row(axis[i], FillValues(ValuesAt(new, axis[i]),
                                                   ValuesAt(old, axis[i])))]]

\* Line 70: new_days = len(ds_merged.time) - len(ds_existing.time).
NewDays(merged, existing, new) == Len(merged.rows) - Len(existing.rows)

\* Lines 75-78: sortby, to_netcdf, return.
WriteDaily(existing, merged, new_days, fault) ==
    IF fault.at = 1
    THEN [file |-> AfterFault(fault.how, existing), st |-> FaultStatus(fault.how),
          err |-> "io", n |-> 0]
    ELSE [file |-> Table(merged.cols, sort_by_time(merged.rows)), st |-> "ok",
          err |-> "", n |-> new_days]

save_daily(ds_new, existing, fault) ==
    IF Unparsable(existing)
    THEN [file |-> existing, st |-> "error", err |-> "corrupt", n |-> 0]
    ELSE IF existing.st = "ok"
    THEN LET m == combine_first(ds_new, existing)
         IN  IF ~m.ok
             THEN [file |-> existing, st |-> "error", err |-> "align", n |-> 0]
             ELSE WriteDaily(existing, m, NewDays(m, existing, ds_new), fault)
    ELSE WriteDaily(existing, ds_new, Len(ds_new.rows), fault)

\* Whether the call gets as far as to_netcdf.
ReachesWrite(ds_new, existing) ==
    /\ ~Unparsable(existing)
    /\ existing.st = "ok" => combine_first(ds_new, existing).ok

SaveDailyOf(datasets) ==
    /\ proc = "climate"
    /\ call = NoCall
    /\ \E key \in DOMAIN nc, records \in datasets, fault \in NcFaults :
         /\ fault.at = 1 => ReachesWrite(Dataset(records), nc[key])
         /\ \E res \in {save_daily(Dataset(records), nc[key], fault)} :
              /\ nc' = [nc EXCEPT ![key] = res.file]
              /\ ncDir' = data_dir(ncDir)
              /\ call' = [NoCall EXCEPT !.op = "save_daily", !.key = key,
                             !.batch = records, !.st = res.st, !.err = res.err,
                             !.n = res.n]
    /\ UNCHANGED <<tasks, running, proc, pqDir, pq>>

SaveDaily == SaveDailyOf(Datasets)

(***************************************************************************)
(* netcdf_store.load, load_range                                           *)
(***************************************************************************)
\* date_start / date_end left out (None).
NoDate == 0

NcRangeEnds == {NoDate} \cup NcDays

\* The `variables` lists asked for: none, a stored one, one never stored, both.
WantSets == {{}, {"temp"}, {"rain"}, {"temp", "rain"}}

\* Faulty variant of load: a location without a file yields an empty dataset.
load_empty(file) ==
    CASE file.st = "absent" -> [st |-> "ok", err |-> "", out |-> EmptyFrame]
      [] Unparsable(file)   -> [st |-> "error", err |-> "corrupt", out |-> NoneResult]
      [] OTHER              -> [st |-> "ok", err |-> "", out |-> Frame(file.cols, file.rows)]

load(file) ==
    CASE file.st = "absent" -> [st |-> "ok", err |-> "", out |-> NoneResult]
      [] Unparsable(file)   -> [st |-> "error", err |-> "corrupt", out |-> NoneResult]
      [] OTHER              -> [st |-> "ok", err |-> "", out |-> Frame(file.cols, file.rows)]

\* ds.sel(time=slice(date_start, date_end)): both labels included, None open.
InSlice(t, date_start, date_end) ==
    /\ date_start # NoDate => date_start <= t
    /\ date_end # NoDate => t <= date_end

\* Faulty variant of Project: every data variable stays.
ProjectNothing(ds, valid) == ds

\* ds[valid]: the data variables left; the values of the others are gone.
Project(ds, valid) ==
    Frame(ds.cols \cap valid,
          [i \in 1..Len(ds.rows) |->
              Row(ds.rows[i].t,
                  [f \in Fields |-> IF f \in valid THEN ds.rows[i].v[f] ELSE Null])])

load_range(file, date_start, date_end, variables) ==
    LET l == load(file)
    IN  IF l.st # "ok" \/ l.out.st = "none" THEN l
        ELSE LET ds == l.out
                 cut == IF date_start # NoDate \/ date_end # NoDate
                        THEN Frame(ds.cols,
                                   SelectSeq(ds.rows,
                                       LAMBDA r : InSlice(r.t, date_start, date_end)))
                        ELSE ds
                 valid == variables \cap cut.cols
             IN  [st |-> "ok", err |-> "",
                  out |-> IF variables # {} /\ valid # {} THEN Project(cut, valid) ELSE cut]

Load ==
    /\ proc = "climate"
    /\ call = NoCall
    /\ \E key \in DOMAIN nc :
         \E res \in {load(nc[key])} :
           call' = [NoCall EXCEPT !.op = "load", !.key = key,
                       !.st = res.st, !.err = res.err, !.out = res.out]
    /\ ncDir' = data_dir(ncDir)
    /\ UNCHANGED <<tasks, running, proc, pqDir, pq, nc>>

LoadRange ==
    /\ proc = "climate"
    /\ call = NoCall
    /\ \E key \in DOMAIN nc, date_start \in NcRangeEnds, date_end \in NcRangeEnds,
          variables \in WantSets :
         \E res \in {load_range(nc[key], date_start, date_end, variables)} :
           call' = [NoCall EXCEPT !.op = "load_range", !.key = key,
                       !.lo = date_start, !.hi = date_end, !.want = variables,
                       !.st = res.st, !.err = res.err, !.out = res.out]
    /\ ncDir' = data_dir(ncDir)
    /\ UNCHANGED <<tasks, running, proc, pqDir, pq, nc>>

(***************************************************************************)
(* netcdf_store.summary, list_locations, delete                            *)
(***************************************************************************)
\* Set of the smallest / largest time of the rows; NaT when there is no row.
MinTime(rows) ==
    IF rows = <<>> THEN NaT
    ELSE CHOOSE t \in TimeSet(rows) : \A u \in TimeSet(rows) : t <= u

MaxTime(rows) ==
    IF rows = <<>> THEN NaT
    ELSE CHOOSE t \in TimeSet(rows) : \A u \in TimeSet(rows) : u <= t

\* date_start, date_end, total_days and variables of the location, or None.
summary(file) ==
    LET l == load(file)
    IN  IF l.st # "ok" \/ l.out.st = "none"
        THEN [st |-> l.st, err |-> l.err, lo |-> 0, hi |-> 0, n |-> 0, out |-> l.out]
        ELSE [st |-> "ok", err |-> "", lo |-> MinTime(l.out.rows),
              hi |-> MaxTime(l.out.rows), n |-> Len(l.out.rows),
              out |-> Frame(l.out.cols, <<>>)]

Summary ==
    /\ proc = "climate"
    /\ call = NoCall
    /\ \E key \in DOMAIN nc :
         \E res \in {summary(nc[key])} :
           call' = [NoCall EXCEPT !.op = "summary", !.key = key, !.st = res.st,
                       !.err = res.err, !.lo = res.lo, !.hi = res.hi, !.n = res.n,
                       !.out = res.out]
    /\ ncDir' = data_dir(ncDir)
    /\ UNCHANGED <<tasks, running, proc, pqDir, pq, nc>>

\* sorted(p.stem for p in d.glob("*.nc")): the keys that have a file.
list_locations(files) == {k \in DOMAIN files : files[k].st # "absent"}

ListLocations ==
    /\ proc = "climate"
    /\ call = NoCall
    /\ call' = [NoCall EXCEPT !.op = "list_locations", !.want = list_locations(nc)]
    /\ ncDir' = data_dir(ncDir)
    /\ UNCHANGED <<tasks, running, proc, pqDir, pq, nc>>

\* Faulty variant of delete: every file of the directory is removed.
delete_all(files, key) ==
    [files |-> [k \in DOMAIN files |-> Absent],
     n |-> IF files[key].st # "absent" THEN 1 ELSE 0]

\* path.unlink() if path.exists(); n is 1 for True, 0 for False.
delete(files, key) ==
    IF files[key].st # "absent"
    THEN [files |-> [files EXCEPT ![key] = Absent], n |-> 1]
    ELSE [files |-> files, n |-> 0]

Delete ==
    /\ proc = "climate"
    /\ call = NoCall
    /\ \E key \in DOMAIN nc :
         \E res \in {delete(nc, key)} :
           /\ nc' = res.files
           /\ call' = [NoCall EXCEPT !.op = "delete", !.key = key, !.n = res.n]
    /\ ncDir' = data_dir(ncDir)
    /\ UNCHANGED <<tasks, running, proc, pqDir, pq>>

(***************************************************************************)
(* Two locations and one stream, merged one record at a time.              *)
(***************************************************************************)
AdminLocations == Locations \cup {"48.85_2.35"}

\* Datasets of at most one day.
DayDatasets == {<<>>} \cup {<<r>> : r \in NcRecords}

SaveDay == SaveDailyOf(DayDatasets)

StoreReading == AppendBatch({<<>>} \cup {<<r>> : r \in Records}, PqFaults)

(***************************************************************************)
(* The handlers and the scheduler of one server process: tasks of one      *)
(* asyncio event loop.  The loop runs a task from one `await` to the next; *)
(* a task that awaits lets the loop run another task.                      *)
(*   await_input  body = await request.body() / data = await request.json()*)
(*                / records = await poll_all_devices(...)                  *)
(*   load         append_records up to pd.read_parquet(path)               *)
(*   write        pd.concat, sort_values, to_parquet, return               *)
(***************************************************************************)
Tasks == {"ecowitt", "switchbot", "scheduler"}

NoTasks == <<>>

\* Faulty variant of AwaitPoints: the write of the partition is awaited too.
AwaitPointsInMerge == {"await_input", "write"}

\* The positions at which a task awaits: there is no await between the entry
\* of append_records and its return.
AwaitPoints == {"await_input"}

\* The record a handler has built from its request, or the scheduler from a poll.
TaskBatches == {<<r>> : r \in Records}

Waiting == [pc |-> "await_input", ready |-> FALSE, batch |-> <<>>, snap |-> Absent]

\* The event loop can run the next step of task t.
CanRun(t) ==
    IF tasks[t].pc \in AwaitPoints
    THEN running = "none" /\ (tasks[t].pc = "await_input" => tasks[t].ready)
    ELSE running = t

\* Who holds the loop after task t has moved to position pc.
Holder(t, pc) == IF pc \in AwaitPoints THEN "none" ELSE t

\* The month file the batch of a task goes to.
TaskMonth(batch) == month_key(to_datetime(batch[1].ts))

\* The request body, or the answer of the SwitchBot API, has arrived.
InputArrives ==
    /\ \E t \in DOMAIN tasks :
         /\ tasks[t].pc = "await_input" /\ ~tasks[t].ready
         /\ \E batch \in TaskBatches :
              tasks' = [tasks EXCEPT ![t] = [Waiting EXCEPT !.ready = TRUE,
                                                            !.batch = batch]]
    /\ UNCHANGED <<proc, pqDir, pq, nc, ncDir, call, running>>

\* The task goes on after its await, builds its record and enters append_records.
Resume ==
    /\ \E t \in DOMAIN tasks :
         /\ tasks[t].pc = "await_input" /\ CanRun(t)
         /\ tasks' = [tasks EXCEPT ![t].pc = "load", ![t].ready = FALSE]
         /\ running' = Holder(t, "load")
    /\ UNCHANGED <<proc, pqDir, pq, nc, ncDir, call>>

\* Lines 40-60: mkdir, and the month file as it is found.
LoadPartition ==
    /\ \E t \in DOMAIN tasks :
         /\ tasks[t].pc = "load" /\ CanRun(t)
         /\ tasks' = [tasks EXCEPT ![t].pc = "write",
                                    ![t].snap = pq[TaskMonth(tasks[t].batch)]]
         /\ running' = Holder(t, "write")
    /\ pqDir' = TRUE
    /\ UNCHANGED <<proc, pq, nc, ncDir, call>>

\* Lines 63-75: the merge with the file that was read, and the write unless
\* the group was skipped; the handler returns, the scheduler awaits its sleep.
WritePartition ==
    /\ \E t \in DOMAIN tasks :
         /\ tasks[t].pc = "write" /\ CanRun(t)
         /\ LET m == TaskMonth(tasks[t].batch)
                 read == [pq EXCEPT ![m] = tasks[t].snap]
                 res == append_records(tasks[t].batch, read, NoFault)
             IN  pq' = IF res.pq[m] # tasks[t].snap
                       THEN [pq EXCEPT ![m] = res.pq[m]]
                       ELSE pq
         /\ tasks' = [tasks EXCEPT ![t] = Waiting]
         /\ running' = Holder(t, "await_input")
    /\ UNCHANGED <<proc, pqDir, nc, ncDir, call>>

(***************************************************************************)
(* Two merges that run at the same time (two threads, or two processes on  *)
(* one storage root), each into its own partition: a monthly group of       *)
(* append_records, or a save_daily of one location.  A merge is three       *)
(* steps, and the steps of the two merges interleave freely.               *)
(*   load    path.exists(), pd.read_parquet / xr.open_dataset              *)
(*   merge   isin + concat (combine_first), sort                           *)
(*   write   to_parquet / to_netcdf                                        *)
(***************************************************************************)
Writers == {"w1", "w2"}

\* Faulty variant of parquet_path: one file for the whole stream.
parquet_path_one(month) == 1

\* _parquet_path(base_dir, month_key): the file base_dir/<month_key>.parquet.
parquet_path(month) == month

\* _nc_path(location_key): the file data_dir/<location_key>.nc.
nc_path(location_key) == location_key

\* The partition a writer merges into: the month of its group, or its location.
TargetMonth(w) == IF w = "w1" THEN 1 ELSE 2

TargetLocation(w) == IF w = "w1" THEN "35.68_139.77" ELSE "48.85_2.35"

\* The groups a writer may hold: records of its own month only.
GroupsOf(m) ==
    SeqsUpTo({r \in Records : month_key(to_datetime(r.ts)) = m}, MaxRecords) \ {<<>>}

\* The datasets a writer may hold: at most two days, never a day twice.
LocationDatasets ==
    {ds \in SeqsUpTo(NcRecords, 2) : ds # <<>> /\ NoDupTimes(Dataset(ds).rows)}

\* The partitions the two merges find: none, or one stored by an earlier merge.
StoredMonth(m) ==
    IF m = 1 THEN {Absent, Table(PA.keys, <<Row(743, PA.v)>>)}
    ELSE {Absent, Table(PB.keys, <<Row(745, PB.v)>>)}

StoredLocation == {Absent, Table(PA.keys, <<Row(2, PA.v)>>)}

Idle(files) ==
    [pc |-> "idle", batch |-> <<>>, snap |-> Absent, merged |-> Absent,
     skip |-> FALSE, orig |-> files]

\* The writer is handed its group (its dataset) and enters the merge.
BeginMerge ==
    /\ \E w \in DOMAIN tasks :
         /\ tasks[w].pc = "idle"
         /\ \E batch \in IF proc = "server" THEN GroupsOf(TargetMonth(w))
                         ELSE LocationDatasets :
              tasks' = [tasks EXCEPT ![w].pc = "load", ![w].batch = batch]
    /\ pqDir' = (pqDir \/ proc = "server")
    /\ ncDir' = (IF proc = "climate" THEN data_dir(ncDir) ELSE ncDir)
    /\ UNCHANGED <<proc, pq, nc, call, running>>

\* parquet_store lines 59-61 / netcdf_store lines 65-67: the file as it is now.
LoadStep ==
    /\ \E w \in DOMAIN tasks :
         /\ tasks[w].pc = "load"
         /\ tasks' = [tasks EXCEPT
                         ![w].pc = "merge",
                         ![w].snap = IF proc = "server"
                                     THEN pq[parquet_path(TargetMonth(w))]
                                     ELSE nc[nc_path(TargetLocation(w))]]
    /\ UNCHANGED <<proc, pqDir, pq, nc, ncDir, call, running>>

\* parquet_store lines 63-71 / netcdf_store lines 69-75: what is to be written,
\* computed from the file that was read.
MergeStep ==
    /\ \E w \in DOMAIN tasks :
         /\ tasks[w].pc = "merge"
         /\ tasks' = [tasks EXCEPT
                         ![w].pc = "write",
                         ![w].merged =
                            IF proc = "server"
                            THEN LET df == DataFrame(tasks[w].batch)
                                     mg == MergeGroup(tasks[w].snap, df,
                                                      Group(df.rows, TargetMonth(w)))
                                 IN  Table(mg.merged.cols, sort_by_time(mg.merged.rows))
                            ELSE save_daily(Dataset(tasks[w].batch), tasks[w].snap,
                                            NoFault).file,
                         ![w].skip =
                            IF proc = "server"
                            THEN LET df == DataFrame(tasks[w].batch)
                                 IN  MergeGroup(tasks[w].snap, df,
                                                Group(df.rows, TargetMonth(w))).skip
                            ELSE FALSE]
    /\ UNCHANGED <<proc, pqDir, pq, nc, ncDir, call, running>>

\* parquet_store line 72 / netcdf_store line 76: the file is replaced (not
\* when the group was skipped by `continue`).
WriteStep ==
    /\ \E w \in DOMAIN tasks :
         /\ tasks[w].pc = "write"
         /\ tasks' = [tasks EXCEPT ![w].pc = "done"]
         /\ pq' = IF proc = "server" /\ ~tasks[w].skip
                  THEN [pq EXCEPT ![parquet_path(TargetMonth(w))] = tasks[w].merged]
                  ELSE pq
         /\ nc' = IF proc = "climate"
                  THEN [nc EXCEPT ![nc_path(TargetLocation(w))] = tasks[w].merged]
                  ELSE nc
    /\ UNCHANGED <<proc, pqDir, ncDir, call, running>>

(***************************************************************************)
(* Bulk collection into the NetCDF store.                                   *)
(*   collect_grid (routers/era5.py), a handler of the climate server: for  *)
(*   every cell of the grid it skips a location that load() finds, else     *)
(*   awaits the fetch and calls save_daily.  While it awaits, the event     *)
(*   loop runs other handlers, such as collect (POST /era5/collect), which  *)
(*   fetches and saves one location whether it is stored or not.            *)
(*   collect_one (scripts/collect_presets.py), called for every preset by   *)
(*   main() of the script, the only task of its process.                    *)
(* The fetch (fetch_daily_open_meteo, an HTTP call) hands back a dataset    *)
(* or raises.                                                               *)
(***************************************************************************)
\* Faulty variant of MAX_RETRIES: one attempt more.
MAX_RETRIES_4 == 3 + 1

MAX_RETRIES == 3

\* Seconds.
RETRY_DELAYS == <<5, 15, 30>>

\* The cells of the region, or the presets, as location keys in loop order.
Cells == <<"35.68_139.77", "48.85_2.35">>

\* What the fetch hands back: a day never stored, or a second reading of
\* day 2 with a further day.
FetchedDatasets == {<<[t |-> 1, p |-> PA]>>, <<[t |-> 2, p |-> PB], [t |-> 3, p |-> PA]>>}

FetchRaises == [ok |-> FALSE, ds |-> <<>>]

FetchOutcomes == {FetchRaises} \cup {[ok |-> TRUE, ds |-> ds] : ds \in FetchedDatasets}

\* What can go wrong at the to_netcdf of a collection (the process lives on).
CollectFaults == {NoFault} \cup [at : {1}, how : {"open_denied", "write_torn"}]

\* The locations as a collection finds them: never collected, collected, or
\* left unreadable by an interrupted write.
FoundLocation == {Absent, Table(PA.keys, <<Row(2, PA.v)>>), Torn}

Job(cells, force) ==
    [pc |-> "idle", cells |-> cells, key |-> "", force |-> force, attempt |-> 0,
     tries |-> 0, failed |-> 0, slept |-> <<>>, results |-> <<>>]

\* The positions at which a handler awaits (the loop is free).
CollectAwaitPoints == {"idle", "await_fetch", "done", "failed"}

LoopAfter(t, pc) == IF pc \in CollectAwaitPoints THEN "none" ELSE t

\* ds = await fetch(...); new_days = save_daily(key, lat, lon, ds), inside a
\* try: the status of the attempt and the file it leaves.
FetchAndSave(file, outcome, fault) ==
    IF ~outcome.ok
    THEN [file |-> file, st |-> "error", err |-> "fetch", n |-> 0, saved |-> FALSE]
    ELSE LET res == save_daily(Dataset(outcome.ds), file, fault)
         IN  [file |-> res.file, st |-> res.st, err |-> res.err, n |-> res.n,
              saved |-> TRUE]

\* The call record of the store call an attempt has made (none when the
\* fetch raised).
SaveCall(key, outcome, att) ==
    IF att.saved
    THEN [NoCall EXCEPT !.op = "save_daily", !.key = key, !.batch = outcome.ds,
                        !.st = att.st, !.err = att.err, !.n = att.n]
    ELSE NoCall

LoadCall(key, l) ==
    [NoCall EXCEPT !.op = "load", !.key = key, !.st = l.st, !.err = l.err,
                   !.out = l.out]

\* era5.py lines 232-272: the request is taken up and the cells are worked out.
GridStart ==
    /\ "grid" \in DOMAIN tasks
    /\ tasks["grid"].pc = "idle" /\ running = "none"
    /\ tasks' = [tasks EXCEPT !["grid"].pc = "check"]
    /\ running' = LoopAfter("grid", "check")
    /\ call' = NoCall
    /\ UNCHANGED <<proc, pqDir, pq, nc, ncDir>>

\* era5.py lines 273-277 and 302: the next cell; `continue` when load() finds
\* the location, return when no cell is left.  load() is outside the try: an
\* unreadable file ends the request with the exception.
GridCheck ==
    /\ "grid" \in DOMAIN tasks
    /\ tasks["grid"].pc = "check" /\ running = "grid"
    /\ LET job == tasks["grid"]
       IN  IF job.cells = <<>>
           THEN /\ tasks' = [tasks EXCEPT !["grid"].pc = "done"]
                /\ running' = LoopAfter("grid", "done")
                /\ call' = NoCall
                /\ ncDir' = ncDir
           ELSE LET key == Head(job.cells)
                    l == load(nc[key])
                    pc == IF l.st # "ok" THEN "failed"
                          ELSE IF l.out.st # "none" THEN "check"
                          ELSE "await_fetch"
                IN  /\ tasks' = [tasks EXCEPT
                                    !["grid"].pc = pc,
                                    !["grid"].key = key,
                                    !["grid"].cells = IF pc = "check" THEN Tail(@) ELSE @]
                    /\ running' = LoopAfter("grid", pc)
                    /\ call' = LoadCall(key, l)
                    /\ ncDir' = data_dir(ncDir)
    /\ UNCHANGED <<proc, pqDir, pq, nc>>

\* era5.py lines 279-300: the fetch has ended; save_daily unless it raised,
\* and the result of the cell.
GridResume ==
    /\ "grid" \in DOMAIN tasks
    /\ tasks["grid"].pc = "await_fetch" /\ running = "none"
    /\ \E outcome \in FetchOutcomes, fault \in CollectFaults :
         LET key == tasks["grid"].key
             att == FetchAndSave(nc[key], outcome, fault)
         IN  /\ nc' = [nc EXCEPT ![key] = att.file]
             /\ call' = SaveCall(key, outcome, att)
             /\ ncDir' = (IF att.saved THEN data_dir(ncDir) ELSE ncDir)
             /\ tasks' = [tasks EXCEPT
                             !["grid"].pc = "check",
                             !["grid"].cells = Tail(@),
                             !["grid"].results = Append(@, att.st)]
    /\ running' = LoopAfter("grid", "check")
    /\ UNCHANGED <<proc, pqDir, pq>>

\* era5.py lines 305-325: POST /era5/collect for a location, up to its fetch.
CollectStart ==
    /\ "collect" \in DOMAIN tasks
    /\ tasks["collect"].pc = "idle" /\ running = "none"
    /\ \E key \in DOMAIN nc :
         tasks' = [tasks EXCEPT !["collect"].pc = "await_fetch",
                                !["collect"].key = key]
    /\ call' = NoCall
    /\ UNCHANGED <<proc, pqDir, pq, nc, ncDir, running>>

\* era5.py lines 325-342: the fetch has ended; save_daily and the response.
CollectResume ==
    /\ "collect" \in DOMAIN tasks
    /\ tasks["collect"].pc = "await_fetch" /\ running = "none"
    /\ \E outcome \in FetchOutcomes, fault \in CollectFaults :
         LET key == tasks["collect"].key
             att == FetchAndSave(nc[key], outcome, fault)
         IN  /\ nc' = [nc EXCEPT ![key] = att.file]
             /\ call' = SaveCall(key, outcome, att)
             /\ ncDir' = (IF att.saved THEN data_dir(ncDir) ELSE ncDir)
             /\ tasks' = [tasks EXCEPT
                             !["collect"].pc = "done",
                             !["collect"].results = Append(@, att.st)]
    /\ UNCHANGED <<proc, pqDir, pq, running>>

\* collect_presets.py lines 175-176 and 59-66: main() calls collect_one for
\* the next preset; without --force a location that load() finds is skipped.
\* load() is outside the try: an unreadable file ends the script.
PresetCheck ==
    /\ "script" \in DOMAIN tasks
    /\ tasks["script"].pc \in {"idle", "check"}
    /\ LET job == tasks["script"]
       IN  IF job.cells = <<>>
           THEN /\ tasks' = [tasks EXCEPT !["script"].pc = "done"]
                /\ call' = NoCall
                /\ ncDir' = ncDir
           ELSE LET key == Head(job.cells)
                    l == load(nc[key])
                    pc == IF job.force THEN "attempt"
                          ELSE IF l.st # "ok" THEN "failed"
                          ELSE IF l.out.st # "none" THEN "check"
                          ELSE "attempt"
                IN  /\ tasks' = [tasks EXCEPT
                                    !["script"].pc = pc,
                                    !["script"].key = key,
                                    !["script"].attempt = 0,
                                    !["script"].tries = 0,
                                    !["script"].failed = 0,
                                    !["script"].slept = <<>>,
                                    !["script"].cells = IF pc = "check" THEN Tail(@) ELSE @,
                                    !["script"].results =
                                        IF pc = "check" THEN Append(@, "skip") ELSE @]
                    /\ call' = (IF job.force THEN NoCall ELSE LoadCall(key, l))
                    /\ ncDir' = (IF job.force THEN ncDir ELSE data_dir(ncDir))
    /\ UNCHANGED <<proc, pqDir, pq, nc, running>>

\* collect_presets.py lines 68-89: one pass of the retry loop; "ok" at once
\* when fetch and save succeed, "error" when the last attempt failed, else on
\* to the sleep.
PresetAttempt ==
    /\ "script" \in DOMAIN tasks
    /\ tasks["script"].pc = "attempt"
    /\ \E outcome \in FetchOutcomes, fault \in CollectFaults :
         LET job == tasks["script"]
             att == FetchAndSave(nc[job.key], outcome, fault)
             pc == IF att.st = "ok" THEN "check"
                   ELSE IF job.attempt < MAX_RETRIES - 1 THEN "sleep"
                   ELSE "check"
         IN  /\ nc' = [nc EXCEPT ![job.key] = att.file]
             /\ call' = SaveCall(job.key, outcome, att)
             /\ ncDir' = (IF att.saved THEN data_dir(ncDir) ELSE ncDir)
             /\ tasks' = [tasks EXCEPT
                             !["script"].pc = pc,
                             !["script"].tries = @ + 1,
                             !["script"].failed = IF att.st = "ok" THEN @ ELSE @ + 1,
                             !["script"].cells = IF pc = "check" THEN Tail(@) ELSE @,
                             !["script"].results =
                                 IF pc = "sleep" THEN @
                                 ELSE Append(@, IF att.st = "ok" THEN "ok" ELSE "error")]
    /\ UNCHANGED <<proc, pqDir, pq, running>>

\* collect_presets.py lines 81-86 and 68: time.sleep(delay), next attempt.
PresetSleep ==
    /\ "script" \in DOMAIN tasks
    /\ tasks["script"].pc = "sleep"
    /\ tasks' = [tasks EXCEPT
                    !["script"].pc = "attempt",
                    !["script"].slept = Append(@, RETRY_DELAYS[tasks["script"].attempt + 1]),
                    !["script"].attempt = @ + 1]
    /\ call' = NoCall
    /\ UNCHANGED <<proc, pqDir, pq, nc, ncDir, running>>

(***************************************************************************)
(* services/amedas_service.py: fetch_day_to_parquet.  The stream           *)
(* directories of the stations are amedas/<station id>; in the             *)
(* specifications of the AMeDAS services pq maps each of them to its       *)
(* monthly files.                                                          *)
(***************************************************************************)
\* Line 132: range(0, 24, 3), the first hours of the eight blocks of a day.
BlockHours == <<0, 3, 6, 9, 12, 15, 18, 21>>

\* The day fetched, 2023-02-01, as its first hour.
FetchedDay == FirstHour(2)

\* The time keys of the JSON of a block: the key of an hour of the day, and a
\* key that is not %Y%m%d%H%M%S.
TimeKey(hour) == [valid |-> TRUE, hour |-> hour]

BadKey == [valid |-> FALSE, hour |-> 0]

\* What JMA holds for the block that begins at hour h: one observation, at
\* h+1 o'clock; the block of 03:00 has a key that is no time as well.
BlockRaw(h) ==
    IF h = 3 THEN <<[key |-> BadKey, obs |-> PA], [key |-> TimeKey(h + 1), obs |-> PA]>>
    ELSE <<[key |-> TimeKey(h + 1), obs |-> PA]>>

\* How a block can answer: the JSON, HTTP 404, another HTTP status
\* (raise_for_status), or no answer within the timeout.
Answer(h, how) == [st |-> how, raw |-> IF how = "data" THEN BlockRaw(h) ELSE <<>>]

\* How many blocks of the day JMA has published when the day is fetched (none,
\* the first two, all); the later ones answer 404.
Published == {0, 2, 8}

\* The answers of a day: the published blocks as data, but for at most one
\* block that answers in another way.
DayResponse(published, bad, how) ==
    [h \in Range(BlockHours) |->
        IF h = bad THEN Answer(h, how)
        ELSE IF h < 3 * published THEN Answer(h, "data")
        ELSE Answer(h, "404")]

DayResponses ==
    {DayResponse(p, bad, how) :
        p \in Published, bad \in Range(BlockHours), how \in {"data", "404", "500", "timeout"}}

\* Lines 142-169: the records of one block; a key strptime rejects is skipped.
BlockRecords(raw) ==
    LET good == SelectSeq(raw, LAMBDA e : e.key.valid)
    IN  [i \in 1..Len(good) |->
            [ts |-> Iso(FetchedDay + good[i].key.hour, 0), p |-> good[i].obs]]

\* Faulty variant of FetchBlocks: a block that fails is skipped like one that
\* answers 404.
RECURSIVE FetchBlocksSkipFailed(_, _, _)
FetchBlocksSkipFailed(hours, response, all_records) ==
    IF hours = <<>> THEN [raised |-> FALSE, records |-> all_records]
    ELSE LET answer == response[Head(hours)]
         IN  IF answer.st = "data"
             THEN FetchBlocksSkipFailed(Tail(hours), response,
                                        all_records \o BlockRecords(answer.raw))
             ELSE FetchBlocksSkipFailed(Tail(hours), response, all_records)

\* Lines 132-169: the loop over the blocks; raised = an exception left it.
RECURSIVE FetchBlocks(_, _, _)
FetchBlocks(hours, response, all_records) ==
    IF hours = <<>> THEN [raised |-> FALSE, records |-> all_records]
    ELSE LET answer == response[Head(hours)]
         IN  CASE answer.st = "404" ->
                    FetchBlocks(Tail(hours), response, all_records)
               [] answer.st = "data" ->
                    FetchBlocks(Tail(hours), response,
                                all_records \o BlockRecords(answer.raw))
               [] OTHER -> [raised |-> TRUE, records |-> all_records]

fetch_day_to_parquet(response, files, fault) ==
    LET got == FetchBlocks(BlockHours, response, <<>>)
    IN  IF got.raised
        THEN [pq |-> files, st |-> "error", err |-> "fetch", n |-> 0, batch |-> <<>>]
        ELSE IF got.records = <<>>
        THEN [pq |-> files, st |-> "ok", err |-> "", n |-> 0, batch |-> <<>>]
        ELSE LET res == append_records(got.records, files, fault)
             IN  [pq |-> res.pq, st |-> res.st, err |-> res.err, n |-> res.n,
                  batch |-> got.records]

\* What can go wrong at the write of the day's partition.
DayFaults == {NoFault, [at |-> 1, how |-> "open_denied"], [at |-> 1, how |-> "write_torn"]}

\* The outcome of the fetch of one day of a station, and the faults that can
\* happen in it (a write can fail only if the call gets to it).
FetchOutcomesOf(response, files, faults) ==
    LET got == FetchBlocks(BlockHours, response, <<>>)
        w == IF got.raised THEN 0 ELSE WritesOf(got.records, files)
    IN  {fetch_day_to_parquet(response, files, f) : f \in {x \in faults : x.at <= w}}

\* POST /amedas/fetch (routers/amedas.py lines 160-178).
FetchDay ==
    /\ proc = "server"
    /\ call = NoCall
    /\ \E sid \in DOMAIN pq, response \in DayResponses :
         \E res \in FetchOutcomesOf(response, pq[sid], DayFaults) :
           /\ pq' = [pq EXCEPT ![sid] = res.pq]
           /\ pqDir' = (pqDir \/ res.batch # <<>>)
           /\ call' = [op |-> "fetch_day_to_parquet", key |-> sid, resp |-> response,
                       batch |-> res.batch, st |-> res.st, err |-> res.err, n |-> res.n]
    /\ UNCHANGED <<tasks, running, proc, nc, ncDir>>

(***************************************************************************)
(* services/amedas_scheduler.py and services/switchbot_scheduler.py: the   *)
(* two polling tasks of the server.  In their specification pq maps the    *)
(* directories amedas/<station id> and sensor to their monthly files, and  *)
(* each task carries `failing`: whether the cause of its failures (the     *)
(* upstream API is down, the disk is full) is still present.               *)
(***************************************************************************)
\* main.py lines 54-56: the registered stations, stripped, at most three.
station_ids == <<"44132", "47662">>

SensorDir == "sensor"

\* The days the scheduler meets: every block published, none published yet,
\* and a day whose fourth block fails after three were fetched.
SchedulerResponses(failing) ==
    {DayResponse(8, 21, "data"), DayResponse(0, 0, "404")}
       \cup (IF failing THEN {DayResponse(8, 9, "500")} ELSE {})

\* The failures of a write a task can meet.
SchedulerFaults(failing) == IF failing THEN DayFaults ELSE {NoFault}

\* What poll_all_devices returns: the reading of the devices at the time of
\* the poll, or no record when no device answered (its errors are logged
\* per device, switchbot_service.py lines 119-126).
SensorBatches(failing) ==
    {<<[ts |-> Iso(t, 0), p |-> PA]>> : t \in {745, 1415}}
       \cup (IF failing THEN {<<>>} ELSE {})

AmedasTask(failing) ==
    [pc |-> "startup", idx |-> 0, results |-> <<>>, log |-> <<>>, failing |-> failing]

SwitchbotTask(failing) ==
    [pc |-> "poll", last |-> "none", batch |-> <<>>, failing |-> failing]

\* results[sid] = count.
Put(results, sid, count) ==
    [s \in DOMAIN results \cup {sid} |-> IF s = sid THEN count ELSE results[s]]

\* Faulty variant of NextStation: the exception of a station leaves the loop.
NextStationAbort(idx, st) == IF st = "error" THEN Len(station_ids) + 1 ELSE idx + 1

\* amedas_scheduler.py lines 40-49: after a station, fetched or failed, the
\* for loop goes on with the next one.
NextStation(idx, st) == idx + 1

\* Faulty variant of AfterPoll: the exception of a cycle ends the task.
AfterPollStop(st) == IF st = "error" THEN "stopped" ELSE "sleep"

\* switchbot_scheduler.py lines 37-40: the exception is logged and the loop
\* sleeps as after a cycle that stored its records.
AfterPoll(st) == "sleep"

\* amedas_scheduler.py line 59: await asyncio.sleep(5 * 60).
AmedasStartup ==
    /\ proc = "server"
    /\ tasks["amedas"].pc = "startup"
    /\ tasks' = [tasks EXCEPT !["amedas"].pc = "sync"]
    /\ UNCHANGED <<call, running, proc, pqDir, pq, nc, ncDir>>

\* Lines 62-69: sync_stations returns or raises (logged), and the first
\* fetch_all_stations(station_ids) begins.
AmedasSync ==
    /\ proc = "server"
    /\ tasks["amedas"].pc = "sync"
    /\ tasks' = [tasks EXCEPT !["amedas"].pc = "first_fetch", !["amedas"].idx = 1]
    /\ UNCHANGED <<call, running, proc, pqDir, pq, nc, ncDir>>

\* fetch_all_stations, lines 40-50: one pass of the loop, and the return of
\* results after the last station.
AmedasFetchStation ==
    LET job == tasks["amedas"]
    IN  /\ proc = "server"
        /\ job.pc \in {"first_fetch", "fetch"}
        /\ job.idx <= Len(station_ids)
        /\ \E response \in SchedulerResponses(job.failing) :
             LET sid == station_ids[job.idx]
             IN  \E res \in FetchOutcomesOf(response, pq[sid],
                                            SchedulerFaults(job.failing)) :
                   LET count == IF res.st = "ok" THEN res.n ELSE 0
                       next == NextStation(job.idx, res.st)
                   IN  /\ pq' = [pq EXCEPT ![sid] = res.pq]
                       /\ pqDir' = (pqDir \/ res.batch # <<>>)
                       /\ tasks' = [tasks EXCEPT !["amedas"] =
                             [job EXCEPT
                                !.idx = next,
                                !.results = Put(job.results, sid, count),
                                !.log = Append(job.log,
                                          [sid |-> sid, st |-> res.st, n |-> res.n,
                                           batch |-> res.batch]),
                                !.pc = IF next > Len(station_ids) THEN "sleep"
                                       ELSE job.pc]]
        /\ UNCHANGED <<call, running, proc, nc, ncDir>>

\* amedas_scheduler.py lines 73-77: the sleep until 02:00 ends and
\* fetch_all_stations is called again.
AmedasWake ==
    /\ proc = "server"
    /\ tasks["amedas"].pc = "sleep"
    /\ tasks' = [tasks EXCEPT !["amedas"].pc = "fetch", !["amedas"].idx = 1,
                              !["amedas"].results = <<>>, !["amedas"].log = <<>>]
    /\ UNCHANGED <<call, running, proc, pqDir, pq, nc, ncDir>>

\* switchbot_scheduler.py lines 32-38: one cycle, up to the sleep.
SwitchbotPoll ==
    LET job == tasks["switchbot"]
    IN  /\ proc = "server"
        /\ job.pc = "poll"
        /\ \E records \in SensorBatches(job.failing) :
             \E fault \in {f \in SchedulerFaults(job.failing) :
                              f.at <= WritesOf(records, pq[SensorDir])} :
               LET res == append_records(records, pq[SensorDir], fault)
               IN  /\ pq' = [pq EXCEPT ![SensorDir] = res.pq]
                   /\ pqDir' = (pqDir \/ records # <<>>)
                   /\ tasks' = [tasks EXCEPT !["switchbot"] =
                         [job EXCEPT
                            !.pc = AfterPoll(res.st),
                            !.batch = records,
                            !.last = IF records = <<>> THEN "empty"
                                     ELSE IF res.st = "ok" THEN "stored"
                                     ELSE "error"]]
        /\ UNCHANGED <<call, running, proc, nc, ncDir>>

\* Line 40: await asyncio.sleep(POLL_INTERVAL) ends.
SwitchbotSleep ==
    /\ proc = "server"
    /\ tasks["switchbot"].pc = "sleep"
    /\ tasks' = [tasks EXCEPT !["switchbot"].pc = "poll"]
    /\ UNCHANGED <<call, running, proc, pqDir, pq, nc, ncDir>>

\* The cause of the failures of a task goes away (the API is back, the disk
\* has room again).
Recover ==
    /\ \E t \in DOMAIN tasks :
         /\ tasks[t].failing
         /\ tasks' = [tasks EXCEPT ![t].failing = FALSE]
    /\ UNCHANGED <<call, running, proc, pqDir, pq, nc, ncDir>>

(***************************************************************************)
(* parquet_store.read_latest                                               *)
(***************************************************************************)
\* The name of the file of a month of 2023, "2023-<mm>.parquet", as the two
\* digits in which the names differ.
MonthDigits(m) == <<m \div 10, m % 10>>

\* The order of the paths: a sorts before b.
NameBefore(a, b) == a[1] < b[1] \/ (a[1] = b[1] /\ a[2] < b[2])

\* Faulty variant of NewestFirst: sorted(...) without reverse=True.
RECURSIVE OldestFirst(_)
OldestFirst(ms) ==
    IF ms = {} THEN <<>>
    ELSE LET m == CHOOSE x \in ms :
                     \A y \in ms \ {x} : NameBefore(MonthDigits(x), MonthDigits(y))
         IN  <<m>> \o OldestFirst(ms \ {m})

\* Line 146: sorted(base_dir.glob("*.parquet"), reverse=True).
RECURSIVE NewestFirst(_)
NewestFirst(ms) ==
    IF ms = {} THEN <<>>
    ELSE LET m == CHOOSE x \in ms :
                     \A y \in ms \ {x} : NameBefore(MonthDigits(y), MonthDigits(x))
         IN  <<m>> \o NewestFirst(ms \ {m})

\* Lines 147-155: the loop over the files.  sort_values(ascending=False) is
\* not a stable sort, so any of the rows with the greatest timestamp of the
\* file can be the first one.
RECURSIVE LatestOf(_, _)
LatestOf(ms, files) ==
    IF ms = <<>> THEN {[st |-> "ok", err |-> "", out |-> NoneResult]}
    ELSE LET df == files[Head(ms)]
         IN  IF Unparsable(df)
             THEN {[st |-> "error", err |-> "corrupt", out |-> NoneResult]}
             ELSE IF df.rows = <<>> THEN LatestOf(Tail(ms), files)
             ELSE {[st |-> "ok", err |-> "", out |-> Frame(df.cols, <<r>>)] :
                      r \in {x \in Range(df.rows) :
                                \A y \in Range(df.rows) : y.t <= x.t}}

read_latest(dirExists, files) ==
    IF ~dirExists THEN {[st |-> "ok", err |-> "", out |-> NoneResult]}
    ELSE LatestOf(NewestFirst({m \in DOMAIN files : files[m].st # "absent"}), files)

ReadLatest ==
    /\ proc = "server"
    /\ call = NoCall
    /\ \E res \in read_latest(pqDir, pq) :
         call' = [NoCall EXCEPT !.op = "read_latest",
                     !.st = res.st, !.err = res.err, !.out = res.out]
    /\ UNCHANGED <<tasks, running, proc, pqDir, pq, nc, ncDir>>

(***************************************************************************)
(* routers/amedas.py: GET /amedas/data/summary (get_day_summary)           *)
(***************************************************************************)
\* The observations of a station around midnight of 2023-02-01: 23:00 of
\* 2023-01-31, 00:00 and 01:00 of 2023-02-01 (JMA publishes an observation at
\* every full ten minutes, 00:00:00 included).
Observations == [ts : {Iso(743, 0), Iso(744, 0), Iso(745, 0)}, p : {PA}]

ObservationBatches == SeqsUpTo(Observations, MaxRecords)

\* The dates asked for, as days of 2023: 2023-01-31 and 2023-02-01.
SummaryDays == {30, 31}

\* Lines 269-270: day_start is 00:00 UTC of the date, day_end a day later.
day_start(day) == day * 24

day_end(day) == day_start(day) + 24

\* Lines 272-293: the rows read_range hands back are the ones aggregated
\* (count = len(df), min / max / mean / sum over the columns of df).
get_day_summary(dirExists, files, day) ==
    LET r == read_range(dirExists, files, day_start(day), day_end(day))
    IN  IF r.st # "ok" THEN [st |-> r.st, err |-> r.err, n |-> 0, out |-> NoneResult]
        ELSE [st |-> "ok", err |-> "", n |-> Len(r.out.rows), out |-> r.out]

\* parquet_store.py line 114: pd.Timestamp(start, tz="UTC") is handed a
\* datetime that carries tzinfo (line 269 of the router); pandas converts it
\* or rejects it with ValueError, depending on its version.
TimestampOutcomes(dirExists) ==
    IF dirExists THEN {"converted", "rejected"} ELSE {"converted"}

GetDaySummary ==
    /\ proc = "server"
    /\ call = NoCall
    /\ \E day \in SummaryDays, ts \in TimestampOutcomes(pqDir) :
         \E res \in {IF ts = "rejected"
                     THEN [st |-> "error", err |-> "value", n |-> 0, out |-> NoneResult]
                     ELSE get_day_summary(pqDir, pq, day)} :
           call' = [NoCall EXCEPT !.op = "get_day_summary",
                       !.lo = day_start(day), !.hi = day_end(day),
                       !.st = res.st, !.err = res.err, !.n = res.n, !.out = res.out]
    /\ UNCHANGED <<tasks, running, proc, pqDir, pq, nc, ncDir>>

\* The observations of a station are stored (fetch_day_to_parquet, line 174).
StoreObservations == AppendBatch(ObservationBatches, {NoFault})

(***************************************************************************)
(* The system.                                                             *)
(***************************************************************************)
\* Both storage directories start empty.  The Parquet store (server/) and the
\* NetCDF store (climate-server/) keep disjoint files and never read each
\* other's, so a behaviour follows one of the two services.
Init ==
    /\ proc \in {"server", "climate"}
    /\ pqDir = FALSE
    /\ pq = [m \in Months |-> Absent]
    /\ nc = [k \in Locations |-> Absent]
    /\ ncDir = FALSE
    /\ call = NoCall
    /\ tasks = NoTasks
    /\ running = "none"

\* The caller takes the outcome (count = append_records(...), df = read_range(...),
\* or the exception / the restart after a kill); the next call can be made.
Return ==
    /\ call # NoCall
    /\ call' = NoCall
    /\ UNCHANGED <<tasks, running, proc, pqDir, pq, nc, ncDir>>

Next ==
    \/ AppendRecords
    \/ ReadRange
    \/ SaveDaily
    \/ Load
    \/ LoadRange
    \/ Summary
    \/ ListLocations
    \/ Delete
    \/ Return

Spec == Init /\ [][Next]_vars

\* One server process with its three tasks, all awaiting input.
InitLoop ==
    /\ proc = "server"
    /\ pqDir = FALSE
    /\ pq = [m \in Months |-> Absent]
    /\ nc = [k \in Locations |-> Absent]
    /\ ncDir = FALSE
    /\ call = NoCall
    /\ tasks = [t \in Tasks |-> Waiting]
    /\ running = "none"

NextLoop ==
    \/ InputArrives
    \/ Resume
    \/ LoadPartition
    \/ WritePartition

SpecLoop == InitLoop /\ [][NextLoop]_vars

\* Both stores empty, the NetCDF store used for two locations.
InitAdmin ==
    /\ proc \in {"server", "climate"}
    /\ pqDir = FALSE
    /\ pq = [m \in Months |-> Absent]
    /\ nc = [k \in AdminLocations |-> Absent]
    /\ ncDir = FALSE
    /\ call = NoCall
    /\ tasks = NoTasks
    /\ running = "none"

NextAdmin ==
    \/ StoreReading
    \/ ReadRange
    \/ SaveDay
    \/ Load
    \/ LoadRange
    \/ Summary
    \/ ListLocations
    \/ Delete
    \/ Return

SpecAdmin == InitAdmin /\ [][NextAdmin]_vars

\* A stream that receives unchecked readings.
InitIngest ==
    /\ proc = "server"
    /\ pqDir = FALSE
    /\ pq = [m \in Months |-> Absent]
    /\ nc = [k \in Locations |-> Absent]
    /\ ncDir = FALSE
    /\ call = NoCall
    /\ tasks = NoTasks
    /\ running = "none"

NextIngest ==
    \/ StoreReadings
    \/ Return

SpecIngest == InitIngest /\ [][NextIngest]_vars

\* The stream directory after a year of appends; only reads follow.
InitYear ==
    /\ proc = "server"
    /\ pqDir = TRUE
    /\ pq = YearStore
    /\ nc = [k \in Locations |-> Absent]
    /\ ncDir = FALSE
    /\ call = NoCall
    /\ tasks = NoTasks
    /\ running = "none"

NextYear ==
    \/ ReadYear
    \/ Return

SpecYear == InitYear /\ [][NextYear]_vars

\* Two writers about to merge, the partitions as earlier merges have left them.
InitWriters ==
    /\ proc \in {"server", "climate"}
    /\ pq \in [Months -> StoredMonth(1) \cup StoredMonth(2)]
    /\ \A m \in Months : pq[m] \in StoredMonth(m)
    /\ pqDir = (\E m \in Months : pq[m] # Absent)
    /\ nc \in [AdminLocations -> StoredLocation]
    /\ ncDir = (\E k \in AdminLocations : nc[k] # Absent)
    /\ (proc = "server" => \A k \in AdminLocations : nc[k] = Absent)
    /\ (proc = "climate" => \A m \in Months : pq[m] = Absent)
    /\ call = NoCall
    /\ tasks = [w \in Writers |-> Idle(IF proc = "server" THEN pq ELSE nc)]
    /\ running = "none"

NextWriters ==
    \/ BeginMerge
    \/ LoadStep
    \/ MergeStep
    \/ WriteStep

SpecWriters == InitWriters /\ [][NextWriters]_vars

\* A climate server that is asked for a grid collection and for the collection
\* of one location, or a run of scripts/collect_presets.py with or without
\* --force; the locations never collected, collected or unreadable.
InitCollect ==
    /\ proc \in {"climate", "script"}
    /\ pqDir = FALSE
    /\ pq = [m \in Months |-> Absent]
    /\ nc \in [Range(Cells) -> FoundLocation]
    /\ ncDir = TRUE
    /\ call = NoCall
    /\ tasks \in IF proc = "climate"
                 THEN {[t \in {"grid", "collect"} |->
                          IF t = "grid" THEN Job(Cells, FALSE) ELSE Job(<<>>, TRUE)]}
                 ELSE {[t \in {"script"} |-> Job(Cells, force)] : force \in BOOLEAN}
    /\ running = "none"

NextCollect ==
    \/ GridStart
    \/ GridCheck
    \/ GridResume
    \/ CollectStart
    \/ CollectResume
    \/ PresetCheck
    \/ PresetAttempt
    \/ PresetSleep

\* The fetch returns or raises (the HTTP client has a timeout), a sleep ends,
\* and the event loop runs a handler that can go on.
SpecCollect == InitCollect /\ [][NextCollect]_vars /\ WF_vars(NextCollect)

\* One station whose directory starts empty; its days are fetched on request.
InitDay ==
    /\ proc = "server"
    /\ pqDir = FALSE
    /\ pq = [sid \in {"44132"} |-> [m \in Months |-> Absent]]
    /\ nc = [k \in Locations |-> Absent]
    /\ ncDir = FALSE
    /\ call = NoCall
    /\ tasks = NoTasks
    /\ running = "none"

NextDay ==
    \/ FetchDay
    \/ Return

SpecDay == InitDay /\ [][NextDay]_vars

\* The server after lifespan has created the two scheduler tasks; the
\* directories are empty and the upstream services or the disk may be failing.
InitSchedulers ==
    /\ proc = "server"
    /\ pqDir = FALSE
    /\ pq = [d \in Range(station_ids) \cup {SensorDir} |-> [m \in Months |-> Absent]]
    /\ nc = [k \in Locations |-> Absent]
    /\ ncDir = FALSE
    /\ call = NoCall
    /\ \E fa, fs \in BOOLEAN :
          tasks = [t \in {"amedas", "switchbot"} |->
                     IF t = "amedas" THEN AmedasTask(fa) ELSE SwitchbotTask(fs)]
    /\ running = "none"

NextSchedulers ==
    \/ AmedasStartup
    \/ AmedasSync
    \/ AmedasFetchStation
    \/ AmedasWake
    \/ SwitchbotPoll
    \/ SwitchbotSleep
    \/ Recover

\* ENABLED <<AmedasFetchStation>>_vars: fetch_all_stations has a station left
\* (every request to JMA returns or raises within its timeout of 30 seconds).
FetchPending == tasks["amedas"].pc \in {"first_fetch", "fetch"}

\* ENABLED <<SwitchbotPoll>>_vars: the task is at the top of its loop (a
\* request to SwitchBot returns or raises within its timeout of 10 seconds).
PollPending == tasks["switchbot"].pc = "poll"

\* The event loop runs each task again and again: a sleep ends, and a cycle
\* that can be made is made.  The last two conjuncts are the weak fairness of
\* AmedasFetchStation and of SwitchbotPoll, written with the conditions
\* under which the two steps are enabled.
SpecSchedulers ==
    InitSchedulers /\ [][NextSchedulers]_vars
       /\ WF_vars(AmedasStartup \/ AmedasSync \/ AmedasWake)
       /\ WF_vars(SwitchbotSleep)
       /\ ([]<>~FetchPending \/ []<><<AmedasFetchStation>>_vars)
       /\ ([]<>~PollPending \/ []<><<SwitchbotPoll>>_vars)

\* A stream directory that starts empty, is appended to and is asked for its
\* latest record.
InitLatest ==
    /\ proc = "server"
    /\ pqDir = FALSE
    /\ pq = [m \in Months |-> Absent]
    /\ nc = [k \in Locations |-> Absent]
    /\ ncDir = FALSE
    /\ call = NoCall
    /\ tasks = NoTasks
    /\ running = "none"

NextLatest ==
    \/ AppendRecords
    \/ ReadLatest
    \/ Return

SpecLatest == InitLatest /\ [][NextLatest]_vars

\* The directory of one station, empty at first; observations are stored and
\* day summaries are asked for.
InitSummary ==
    /\ proc = "server"
    /\ pqDir = FALSE
    /\ pq = [m \in Months |-> Absent]
    /\ nc = [k \in Locations |-> Absent]
    /\ ncDir = FALSE
    /\ call = NoCall
    /\ tasks = NoTasks
    /\ running = "none"

NextSummary ==
    \/ StoreObservations
    \/ GetDaySummary
    \/ Return

SpecSummary == InitSummary /\ [][NextSummary]_vars

(***************************************************************************)
(* Properties.  A step from an idle state to the state in which `call`     *)
(* holds a merge is that merge: the unprimed files are the partitions      *)
(* before it, the primed ones those after it.                              *)
(***************************************************************************)
IsMerge(c) == c.op \in {"append_records", "save_daily"}

\* The instant of a record of a batch: the converted timestamp of a record of
\* the Parquet store, the day of a row of a dataset.
TimeOf(r) == IF "ts" \in DOMAIN r THEN to_datetime(r.ts) ELSE r.t

BatchTimes(batch) == {TimeOf(batch[i]) : i \in 1..Len(batch)} \ {NaT}

BatchMonths(batch) == {month_key(t) : t \in BatchTimes(batch)}

\* The rows stored at instant t, in stored order.
RowsAt(rows, t) == SelectSeq(rows, LAMBDA r : r.t = t)

\* batch[i] is the last record of the batch with its timestamp.
IsLastAt(batch, i) ==
    \A j \in (i + 1)..Len(batch) : TimeOf(batch[j]) # TimeOf(batch[i])

StoredTimes(file) == IF file.st = "ok" THEN TimeSet(file.rows) ELSE {}

Count(rows, r) == Cardinality({i \in 1..Len(rows) : rows[i] = r})

RECURSIVE AllRows(_)
AllRows(ms) ==
    IF ms = {} THEN <<>>
    ELSE LET m == CHOOSE x \in ms : TRUE
         IN  pq[m].rows \o AllRows(ms \ {m})

\* C1: for every entity key and every partition, no two stored rows share a
\* timestamp, after any sequence of merges and whatever a batch repeats.
C1_UniqueTimestamps ==
    /\ \A m \in Months : pq[m].st = "ok" => NoDupTimes(pq[m].rows)
    /\ \A k \in Locations : nc[k].st = "ok" => NoDupTimes(nc[k].rows)

\* C2: a merge that receives a row whose timestamp is already stored replaces
\* the stored row by the incoming row as a whole (fields the incoming row
\* lacks become missing).
C2_WholeRowOverwrite ==
    [][ /\ (call'.op = "append_records" /\ call'.st = "ok") =>
             \A i \in 1..Len(call'.batch) :
                LET r == call'.batch[i]
                    t == TimeOf(r)
                    m == month_key(t)
                IN  (t \in StoredTimes(pq[m]) /\ IsLastAt(call'.batch, i))
                      => RowsAt(pq'[m].rows, t) = <<Row(t, r.p.v)>>
        /\ (call'.op = "save_daily" /\ call'.st = "ok") =>
             \A i \in 1..Len(call'.batch) :
                LET r == call'.batch[i]
                    k == call'.key
                IN  (r.t \in StoredTimes(nc[k]) /\ IsLastAt(call'.batch, i))
                      => RowsAt(nc'[k].rows, r.t) = <<Row(r.t, r.p.v)>>
      ]_vars

\* C3: appending is idempotent: after a merge of a batch has succeeded, merging
\* the same batch again succeeds, leaves every partition as it is and reports
\* zero new rows.
C3_Idempotent ==
    /\ (call.op = "append_records" /\ call.st = "ok") =>
          LET again == append_records(call.batch, pq, NoFault)
          IN  again.st = "ok" /\ again.pq = pq /\ again.n = 0
    /\ (call.op = "save_daily" /\ call.st = "ok") =>
          LET again == save_daily(Dataset(call.batch), nc[call.key], NoFault)
          IN  again.st = "ok" /\ again.file = nc[call.key] /\ again.n = 0

\* C4: a partition path only ever goes from one complete partition to the
\* next: whatever happens during a merge (a crash included), every path holds
\* afterwards either what it held before or a completely written partition.
C4_AtomicPersist ==
    [][ /\ \A m \in Months : pq'[m] = pq[m] \/ pq'[m].st = "ok"
        /\ \A k \in Locations : nc'[k] = nc[k] \/ nc'[k].st = "ok"
      ]_vars

\* C5: when the write step of a merge fails, the call raises and the partition
\* whose write failed is exactly as before the call (the only partitions that
\* differ are those of groups the call had merged completely before).
C5_WriteFailureLeavesPartition ==
    [][ (IsMerge(call') /\ call'.err = "io" /\ call'.st = "error") =>
          /\ \A m \in Months : pq'[m] = pq[m] \/ (pq'[m].st = "ok" /\ pq'[m] # pq[m]
                                 /\ m \in BatchMonths(call'.batch)
                                 /\ \E m2 \in BatchMonths(call'.batch) :
                                       m2 > m /\ pq'[m2] = pq[m2])
          /\ nc' = nc
      ]_vars

\* C6: the count a merge returns is the number of distinct incoming timestamps
\* that were not stored in their partition before the merge.
C6_NewRowCount ==
    [][ /\ (call'.op = "append_records" /\ call'.st = "ok") =>
             call'.n = Cardinality({t \in BatchTimes(call'.batch) :
                                       t \notin StoredTimes(pq[month_key(t)])})
        /\ (call'.op = "save_daily" /\ call'.st = "ok") =>
             call'.n = Cardinality({t \in BatchTimes(call'.batch) :
                                       t \notin StoredTimes(nc[call'.key])})
      ]_vars

\* C7: a partition file that cannot be parsed is never overwritten, repaired
\* or deleted by a merge or a read (only the explicit delete removes it), and
\* a merge or read that gets to it fails with the parse error instead of
\* taking the partition as empty.
C7_CorruptSurfaced ==
    [][ /\ \A m \in Months : pq[m].st = "torn" =>
             /\ pq'[m] = pq[m]
             /\ (call'.op = "append_records" /\ m \in BatchMonths(call'.batch)
                   /\ call'.err # "io")
                  => (call'.st = "error" /\ call'.err = "corrupt")
             /\ (call'.op = "read_range"
                   /\ month_key(call'.lo) <= m /\ m <= month_key(call'.hi))
                  => (call'.st = "error" /\ call'.err = "corrupt")
        /\ \A k \in Locations : nc[k].st = "torn" =>
             /\ nc'[k] = nc[k] \/ (call'.op = "delete" /\ call'.key = k)
             /\ (call'.op \in {"save_daily", "load", "load_range", "summary"}
                   /\ call'.key = k)
                  => (call'.st = "error" /\ call'.err = "corrupt")
      ]_vars

\* The merge just run found an unparsable partition and raised.
C7_Witness ==
    \/ /\ call.op = "append_records" /\ call.err = "corrupt"
       /\ \E m \in BatchMonths(call.batch) : pq[m].st = "torn"
       /\ \E m \in Months : pq[m].st = "ok"
    \/ /\ call.op = "save_daily" /\ call.err = "corrupt" /\ nc[call.key].st = "torn"

C9_RangeExact ==
    /\ (call.op = "read_range" /\ call.st = "ok") =>
          LET stored == AllRows({m \in Months : pq[m].st = "ok"})
          IN  /\ IsSorted(call.out.rows)
              /\ \A r \in Range(stored) \cup Range(call.out.rows) :
                    Count(call.out.rows, r) =
                      IF call.lo <= r.t /\ r.t <= call.hi THEN Count(stored, r) ELSE 0
    /\ (call.op = "load_range" /\ call.st = "ok" /\ call.out.st = "ok"
          /\ call.lo # NoDate /\ call.hi # NoDate) =>
          LET stored == nc[call.key].rows
              got == SeqTimes(call.out.rows)
          IN  /\ IsSorted(call.out.rows)
              /\ \A t \in NcDays :
                    Cardinality({i \in 1..Len(got) : got[i] = t}) =
                      IF call.lo <= t /\ t <= call.hi
                      THEN Cardinality({i \in 1..Len(stored) : stored[i].t = t})
                      ELSE 0
              /\ call.want = {} =>
                    \A r \in Range(call.out.rows) : Count(stored, r) = Count(call.out.rows, r)

\* A read that spans two month files returns rows of both and leaves a stored
\* row out; a dataset read that cuts at both ends.
C9_Witness ==
    \/ /\ call.op = "read_range" /\ call.st = "ok"
       /\ \E i, j \in 1..Len(call.out.rows) :
             month_key(call.out.rows[i].t) # month_key(call.out.rows[j].t)
       /\ \E m \in Months : \E t \in StoredTimes(pq[m]) : t > call.hi
    \/ /\ call.op = "load_range" /\ call.st = "ok" /\ call.out.st = "ok"
       /\ Len(call.out.rows) >= 2
       /\ Len(call.out.rows) < Len(nc[call.key].rows)

\* C10: within every partition the rows are ascending by timestamp after
\* every merge, whatever the order of the batch, for a new and for an existing
\* partition.
C10_SortedPartitions ==
    /\ \A m \in Months : pq[m].st = "ok" => IsSorted(pq[m].rows)
    /\ \A k \in Locations : nc[k].st = "ok" => IsSorted(nc[k].rows)

\* A merge of a batch in descending order has just been stored.
C10_Witness ==
    /\ IsMerge(call) /\ call.st = "ok" /\ call.n > 0
    /\ \E i \in 1..(Len(call.batch) - 1) :
          /\ TimeOf(call.batch[i]) > TimeOf(call.batch[i + 1])
          /\ call.op = "append_records" =>
               month_key(TimeOf(call.batch[i])) = month_key(TimeOf(call.batch[i + 1]))

\* The UTC calendar month of 2023 an instant (in hours) falls in, for the
\* first quarter: January ends with hour 743, February with hour 1415.
CalendarMonth(t) == IF t < 31 * 24 THEN 1 ELSE IF t < (31 + 28) * 24 THEN 2 ELSE 3

\* C11: every record is written to the partition of the UTC calendar month of
\* its timestamp: after any append every row of partition YYYY-MM lies in that
\* month, and every record of a batch that was stored is found in the
\* partition of its own month (so a batch holding 2023-01-31T23:00Z and
\* 2023-02-01T01:00Z leaves one row in each of two partitions).
C11_MonthlyPartition ==
    [][ /\ \A m \in Months : pq'[m].st = "ok" =>
             \A i \in 1..Len(pq'[m].rows) : CalendarMonth(pq'[m].rows[i].t) = m
        /\ (call'.op = "append_records" /\ call'.st = "ok") =>
             \A i \in 1..Len(call'.batch) :
                LET ts == call'.batch[i].ts
                    utc == ts.wall - ts.off
                IN  ts.kind = "iso" =>
                      /\ pq'[CalendarMonth(utc)].st = "ok"
                      /\ utc \in TimeSet(pq'[CalendarMonth(utc)].rows)
      ]_vars

\* An append of the two instants around the month boundary, the first given
\* with a +09:00 offset, has left two partitions with one row each.
C11_Witness ==
    /\ call.op = "append_records" /\ call.st = "ok"
    /\ Range(call.batch) = {[ts |-> Iso(752, 9), p |-> PA], [ts |-> Iso(745, 0), p |-> PA]}
    /\ SeqTimes(pq[1].rows) = <<743>>
    /\ SeqTimes(pq[2].rows) = <<745>>

\* Month m of 2023 has an instant in [start, end].
MonthIntersects(m, start, end) == FirstHour(m) <= end /\ start <= LastHour(m)

\* C12: for start <= end the months a range read enumerates contain every
\* calendar month that intersects [start, end], those of both end points
\* included; the loop ends after (end - start) div (28 days) + 1 steps, and the
\* reading stored in each of these months and in the range is returned.
C12_EnumerationCovers ==
    (call.op = "read_range" /\ call.lo <= call.hi) =>
       /\ \A m \in YearMonths :
             MonthIntersects(m, call.lo, call.hi)
                => m \in RangeMonths(call.lo, call.hi, {})
       /\ RangeSteps(call.lo, call.hi) = (call.hi - call.lo) \div (StepDays * 24) + 1
       /\ call.st = "ok"
       /\ \A m \in YearMonths : \A t \in TimeSet(pq[m].rows) :
             (call.lo <= t /\ t <= call.hi) => t \in TimeSet(call.out.rows)

\* A read from 2023-01-31T23:00Z to the end of a later month: the second step
\* of the loop starts on 2023-02-28T23:00Z, and the reading of February is
\* returned.
C12_Witness ==
    /\ call.op = "read_range" /\ call.st = "ok"
    /\ call.lo = LastHour(1) /\ call.hi >= LastHour(3)
    /\ \E t \in TimeSet(call.out.rows) : FirstHour(2) <= t /\ t <= LastHour(2)

\* The instants of the records of a batch whose timestamp is a date.
UsableTimes(batch) ==
    {batch[i].ts.wall - batch[i].ts.off : i \in {j \in 1..Len(batch) : batch[j].ts.kind = "iso"}}

\* C13: a record is left out of an append exactly when its timestamp is
\* missing or no date, and leaving it out does not abort the batch: after the
\* call every other record of the batch (one whose values are all missing
\* included) is stored in its partition, and nothing else was added.
C13_OnlyInvalidDropped ==
    [][ call'.op = "append_records" =>
          \A m \in Months :
             StoredTimes(pq'[m]) =
                StoredTimes(pq[m]) \cup
                   {t \in UsableTimes(call'.batch) : CalendarMonth(t) = m}
      ]_vars

\* C14: when a batch holds several records of one timestamp that was not
\* stored before, the merge stores exactly one row of that timestamp, and it
\* is the record that comes last in the batch.
C14_LastInBatchWins ==
    [][ /\ (call'.op = "append_records" /\ call'.st = "ok") =>
             \A i \in 1..Len(call'.batch) :
                LET r == call'.batch[i]
                    t == TimeOf(r)
                    m == month_key(t)
                IN  (t # NaT /\ t \notin StoredTimes(pq[m]) /\ IsLastAt(call'.batch, i))
                      => RowsAt(pq'[m].rows, t) = <<Row(t, r.p.v)>>
        /\ (call'.op = "save_daily" /\ call'.st = "ok") =>
             \A i \in 1..Len(call'.batch) :
                LET r == call'.batch[i]
                    k == call'.key
                IN  (r.t \notin StoredTimes(nc[k]) /\ IsLastAt(call'.batch, i))
                      => RowsAt(nc'[k].rows, r.t) = <<Row(r.t, r.p.v)>>
      ]_vars

\* C15: when an append over several months is interrupted after some monthly
\* groups were written and before the next one is begun, the groups written
\* are as the uninterrupted append would have left them, and running the same
\* batch again leaves the store as one uninterrupted append of the batch
\* would have.
C15_InterruptedAppendResumes ==
    [][ (/\ call'.op = "append_records" /\ call'.err = "io"
         /\ \A m \in Months : pq'[m] = pq[m] \/ pq'[m].st = "ok") =>
          LET whole == append_records(call'.batch, pq, NoFault)
              again == append_records(call'.batch, pq', NoFault)
          IN  /\ \A m \in Months : pq'[m] # pq[m] => pq'[m] = whole.pq[m]
              /\ again.st = whole.st
              /\ again.pq = whole.pq
      ]_vars

\* The process died between the January and the February group of a batch:
\* 2023-01 is written, 2023-02 is not.
C15_Witness ==
    /\ call.op = "append_records" /\ call.st = "crash" /\ call.err = "io"
    /\ BatchMonths(call.batch) = {1, 2}
    /\ pq[1].st = "ok" /\ pq[2].st = "absent"

IsRead(c) == c.op \in {"load", "load_range", "read_range"}

\* What the caller of a read was handed.
Handed(c) == [st |-> c.st, err |-> c.err, out |-> c.out]

\* The same read made once more, on the storage the read has left, hands the
\* caller the same result.
SameAgain ==
    /\ call'.op = "read_range" =>
          read_range(pqDir', pq', call'.lo, call'.hi) = Handed(call')
    /\ call'.op = "load" => load(nc'[call'.key]) = Handed(call')
    /\ call'.op = "load_range" =>
          load_range(nc'[call'.key], call'.lo, call'.hi, call'.want) = Handed(call')

\* C16 as stated: load, load_range and read_range change nothing in the
\* persisted state (no partition and no directory is created, modified or
\* removed), and the same read made again returns the same result.
C16_ReadsChangeNothing ==
    [][ IsRead(call') =>
          /\ pq' = pq /\ nc' = nc /\ pqDir' = pqDir /\ ncDir' = ncDir
          /\ SameAgain
      ]_vars

\* C16 amended: the reads create, modify and remove no partition file and the
\* same read made again returns the same result; read_range creates no
\* directory, load and load_range leave the data directory of the NetCDF
\* store existing (they create it when it is missing).
C16_ReadsKeepPartitions ==
    [][ IsRead(call') =>
          /\ pq' = pq /\ nc' = nc /\ pqDir' = pqDir
          /\ ncDir' = (ncDir \/ call'.op \in {"load", "load_range"})
          /\ SameAgain
      ]_vars

\* A range read of a location that was never saved has returned None, and the
\* data directory exists.
C16_Witness ==
    /\ call.op = "load_range" /\ call.st = "ok" /\ call.out = NoneResult
    /\ nc[call.key].st = "absent"
    /\ ncDir

\* There is a file at the path (readable or not).
Exists(file) == file.st # "absent"

ProjectedRead ==
    /\ call.op = "load_range" /\ call.st = "ok" /\ call.out.st = "ok"
    /\ call.want # {}

\* No row of the result has a value for a field outside `fields`.
OnlyFields(out, fields) ==
    /\ out.cols \subseteq fields
    /\ \A i \in 1..Len(out.rows) : \A f \in Fields \ fields : out.rows[i].v[f] = Null

\* C18 as stated: a range read given a field list returns the time field and
\* no field outside the list, whatever the list (also when none of its names
\* is a field of the partition).
C18_ProjectsToFieldList ==
    ProjectedRead => OnlyFields(call.out, call.want)

\* C18 amended: when at least one name of the list is a field of the
\* partition, the result has the time of every row in range and exactly the
\* listed fields that the partition has; when none is, the list is ignored
\* and the result has every field of the partition.
C18_ProjectsToKnownFields ==
    ProjectedRead =>
       LET file == nc[call.key]
           all == load_range(file, call.lo, call.hi, {}).out
       IN  /\ SeqTimes(call.out.rows) = SeqTimes(all.rows)
           /\ call.want \cap file.cols # {} =>
                 /\ call.out.cols = call.want \cap file.cols
                 /\ OnlyFields(call.out, call.want)
                 /\ \A i \in 1..Len(call.out.rows) : \A f \in call.out.cols :
                       call.out.rows[i].v[f] = all.rows[i].v[f]
           /\ call.want \cap file.cols = {} => call.out = all

\* A read asked for "temp" and a field never stored, of a file with "temp"
\* and "hum": the rows come back with "temp" only.
C18_Witness ==
    /\ ProjectedRead
    /\ call.want = {"temp", "rain"}
    /\ nc[call.key].cols = {"temp", "hum"}
    /\ call.out.cols = {"temp"}
    /\ \E i \in 1..Len(call.out.rows) :
          nc[call.key].rows[i].v["hum"] # Null /\ call.out.rows[i].v["hum"] = Null

\* The field names the records of a batch carry.
BatchFields(batch) == UNION {batch[i].p.keys : i \in 1..Len(batch)}

\* Every row of `before` whose timestamp is not in `times` is a row of `after`.
KeepsOtherRows(before, after, times) ==
    \A i \in 1..Len(before.rows) :
       before.rows[i].t \notin times => Count(after.rows, before.rows[i]) >= 1

\* C19: a merge of a batch into an existing partition leaves the partition
\* with the union of its field names and those of the batch (a field new to
\* the partition is kept, the rows stored before having it missing), and
\* every row stored before whose timestamp is not in the batch is still
\* there with all its values.
C19_NewFieldsPreserved ==
    [][ /\ (call'.op = "append_records" /\ call'.st = "ok") =>
             \A m \in BatchMonths(call'.batch) :
                pq[m].st = "ok" =>
                   /\ pq'[m].cols = pq[m].cols \cup BatchFields(call'.batch)
                   /\ KeepsOtherRows(pq[m], pq'[m], BatchTimes(call'.batch))
        /\ (call'.op = "save_daily" /\ call'.st = "ok" /\ call'.batch # <<>>) =>
             LET k == call'.key
             IN  nc[k].st = "ok" =>
                   /\ nc'[k].cols = nc[k].cols \cup BatchFields(call'.batch)
                   /\ KeepsOtherRows(nc[k], nc'[k], BatchTimes(call'.batch))
      ]_vars

\* Task t is between the entry of append_records and its return.
InMerge(t) == tasks[t].pc \in {"load", "write"}

\* C20: inside one server process, once a handler or the scheduler has
\* entered append_records no other task of the event loop runs before it has
\* returned, so merges into one partition never interleave: no timestamp
\* stored in a partition is ever lost, and the record of a task is in its
\* partition when the task's merge returns.
C20_MergesDoNotInterleave ==
    [][ /\ \A t \in DOMAIN tasks : InMerge(t) => running = t
        /\ \A t \in DOMAIN tasks : InMerge(t) =>
              /\ \A u \in DOMAIN tasks \ {t} : tasks'[u].pc = tasks[u].pc
              /\ tasks'[t] = tasks[t] => pq' = pq
        /\ \A m \in DOMAIN pq : StoredTimes(pq[m]) \subseteq StoredTimes(pq'[m])
        /\ \A t \in DOMAIN tasks :
              (tasks[t].pc = "write" /\ tasks'[t].pc = "await_input") =>
                 to_datetime(tasks[t].batch[1].ts)
                    \in StoredTimes(pq'[TaskMonth(tasks[t].batch)])
      ]_vars

\* A task is inside its merge, about to add its row to a partition that holds
\* the row of an earlier merge, while the two other tasks have their input
\* and wait for the loop.
C20_Witness ==
    \E t \in DOMAIN tasks :
       /\ tasks[t].pc = "write" /\ running = t
       /\ tasks[t].snap.st = "ok" /\ tasks[t].snap.rows # <<>>
       /\ to_datetime(tasks[t].batch[1].ts) \notin TimeSet(tasks[t].snap.rows)
       /\ \A u \in DOMAIN tasks \ {t} : tasks[u].ready

\* The store after the merges of writers a and then b, run one after the other
\* on the store the two writers found.
OneAfterTheOther(a, b) ==
    IF proc = "server"
    THEN append_records(tasks[b].batch,
                        append_records(tasks[a].batch, tasks[a].orig, NoFault).pq,
                        NoFault).pq
    ELSE LET first == [tasks[a].orig EXCEPT ![TargetLocation(a)] =
                          save_daily(Dataset(tasks[a].batch), @, NoFault).file]
         IN  [first EXCEPT ![TargetLocation(b)] =
                 save_daily(Dataset(tasks[b].batch), @, NoFault).file]

BothDone == \A w \in DOMAIN tasks : tasks[w].pc = "done"

\* The files of the store the behaviour is of.
StoreFiles == IF proc = "server" THEN pq ELSE nc

TargetOf(w) == IF proc = "server" THEN TargetMonth(w) ELSE TargetLocation(w)

\* C21: two merges into different partitions are independent: while a merge
\* is under way its partition is as it found it, whatever steps the other
\* merge has taken (neither changes the other's partition), and under every
\* interleaving of their load, merge and write steps both partitions end as
\* they do when the two merges run one after the other, in either order.
C21_DisjointMergesIndependent ==
    /\ \A w \in DOMAIN tasks :
          tasks[w].pc # "done" =>
             StoreFiles[TargetOf(w)] = (tasks[w].orig)[TargetOf(w)]
    /\ BothDone =>
          /\ StoreFiles = OneAfterTheOther("w1", "w2")
          /\ StoreFiles = OneAfterTheOther("w2", "w1")

\* Both merges have loaded their partition and computed what to write, and
\* neither has written yet: the two merges overlap, and each is about to add a
\* row to a partition that holds one.
C21_Witness ==
    \A w \in DOMAIN tasks :
       /\ tasks[w].pc = "write"
       /\ tasks[w].snap.st = "ok"
       /\ ~tasks[w].skip
       /\ Len(tasks[w].merged.rows) > Len(tasks[w].snap.rows)

\* The rows of `after` that are not rows of `before`, as a set.
AddedRows(before, after) ==
    {r \in Range(after.rows) : Count(after.rows, r) > Count(before.rows, r)}

\* C22: in the Parquet store a stored row never changes: whatever batch a
\* later append_records brings and however the call ends, every timestamp
\* stored in a monthly partition keeps its row with all its field values, and
\* the rows added are records of the batch whose timestamps were not stored
\* before.
C22_StoredRowsKept ==
    [][ call'.op = "append_records" =>
          \A m \in Months :
             pq[m].st = "ok" =>
                /\ pq'[m].st = "ok"
                /\ \A t \in StoredTimes(pq[m]) :
                      RowsAt(pq'[m].rows, t) = RowsAt(pq[m].rows, t)
                /\ \A r \in AddedRows(pq[m], pq'[m]) :
                      /\ r.t \notin StoredTimes(pq[m])
                      /\ \E i \in 1..Len(call'.batch) :
                            r = Row(TimeOf(call'.batch[i]), call'.batch[i].p.v)
      ]_vars

\* The dataset holds day t exactly once.
HoldsOnce(rows, t) == Len(RowsAt(rows, t)) = 1

\* C23: save_daily merges per field, not per row: after a save into an
\* existing file, for every day that the new and the stored dataset both hold
\* (once each) and every variable, the stored value is the new value when
\* that is not missing, and the value stored before when the new value is
\* missing or the new dataset lacks the variable.
C23_MergesPerField ==
    [][ (call'.op = "save_daily" /\ call'.st = "ok" /\ nc[call'.key].st = "ok") =>
          LET ds_new == Dataset(call'.batch)
              old == nc[call'.key]
              now == nc'[call'.key]
          IN  \A t \in TimeSet(ds_new.rows) \cap TimeSet(old.rows) :
                 (HoldsOnce(ds_new.rows, t) /\ HoldsOnce(old.rows, t)) =>
                    /\ HoldsOnce(now.rows, t)
                    /\ \A f \in Fields :
                          LET new_value == IF f \in ds_new.cols
                                           THEN RowAt(ds_new.rows, t).v[f] ELSE Null
                          IN  RowAt(now.rows, t).v[f] =
                                 IF new_value # Null THEN new_value
                                 ELSE RowAt(old.rows, t).v[f]
      ]_vars

\* A second reading of day 2 that has a new "temp" and no "hum" was saved over
\* a stored day 2: the row has the new "temp" and the "hum" stored before.
C23_Witness ==
    /\ call.op = "save_daily" /\ call.st = "ok"
    /\ \E i \in 1..Len(call.batch) : call.batch[i] = [t |-> 2, p |-> PB]
    /\ \E i \in 1..Len(nc[call.key].rows) :
          nc[call.key].rows[i] = Row(2, [temp |-> PB.v.temp, hum |-> PA.v.hum])

\* Task t is a bulk collection that skips collected locations, and the step
\* is one of its steps.
BulkStep(t) == t \in {"grid", "script"} /\ ~tasks[t].force /\ tasks'[t] # tasks[t]

\* C24: bulk collection never rewrites a collected location: collect_grid, and
\* collect_one without force, never call save_daily for a location key that
\* has a stored partition, and no step of theirs changes a stored partition,
\* whatever dates were fetched.
C24_NeverRewritesCollected ==
    [][ \A t \in DOMAIN tasks :
           BulkStep(t) =>
              /\ call'.op = "save_daily" => nc[call'.key].st # "ok"
              /\ \A k \in DOMAIN nc : nc[k].st = "ok" => nc'[k] = nc[k]
      ]_vars

\* The run of the script has ended (main() has returned, or load() has raised).
ScriptEnded == "script" \in DOMAIN tasks => tasks["script"].pc \in {"done", "failed"}

Last(s) == s[Len(s)]

\* C26: collect_one ends after at most three fetch-and-save attempts: the
\* first attempt that succeeds returns "ok" and no further attempt is made;
\* "error" is returned only when three attempts in a row have failed; a failed
\* attempt is followed by a wait (5 s after the first, 15 s after the second)
\* except the third, after which collect_one returns at once; and the run of
\* the script over its presets comes to an end.
C26_RetriesBounded ==
    /\ [][ "script" \in DOMAIN tasks =>
             LET job == tasks["script"]
                 now == tasks'["script"]
                 succeeded == call'.op = "save_daily" /\ call'.st = "ok"
             IN  /\ job.pc = "attempt" =>
                      /\ now.tries = job.tries + 1 /\ now.tries <= 3
                      /\ job.failed = job.tries
                      /\ Len(job.slept) = job.tries
                      /\ now.slept = job.slept
                      /\ succeeded =>
                            /\ now.pc = "check"
                            /\ now.results = Append(job.results, "ok")
                      /\ (~succeeded /\ job.tries < 2) =>
                            /\ now.pc = "sleep"
                            /\ now.results = job.results
                      /\ (~succeeded /\ job.tries = 2) =>
                            /\ now.pc = "check"
                            /\ now.results = Append(job.results, "error")
                            /\ now.failed = 3
                            /\ now.slept = <<5, 15>>
                 /\ job.pc = "sleep" =>
                      /\ now.pc = "attempt"
                      /\ now.tries = job.tries /\ now.failed = job.failed
         ]_vars
    /\ <>ScriptEnded

\* collect_one has just returned "error": three attempts were made and failed,
\* with waits of 5 and 15 seconds between them.
C26_Witness ==
    /\ "script" \in DOMAIN tasks
    /\ tasks["script"].pc = "check"
    /\ tasks["script"].results # <<>> /\ Last(tasks["script"].results) = "error"
    /\ tasks["script"].tries = 3 /\ tasks["script"].failed = 3
    /\ tasks["script"].slept = <<5, 15>>

(***************************************************************************)
(* C25.  fetch_day_to_parquet is all-or-nothing for failures other than    *)
(* HTTP 404.                                                               *)
(***************************************************************************)
\* The hours of the blocks of the response that answered in the given way.
HoursThat(response, hows) == {h \in Range(BlockHours) : response[h].st \in hows}

\* The instants of the observations of the blocks that answered with data.
FetchedTimes(response) == {FetchedDay + h + 1 : h \in HoursThat(response, {"data"})}

\* C25: fetch_day_to_parquet asks for the eight 3-hour blocks of the day.  If
\* a block fails otherwise than with HTTP 404, the call raises and the
\* station's files are as before the call, the observations of the blocks
\* fetched before the failure included.  If no block fails so, the blocks
\* that answer 404 are skipped and the observations of every other block are
\* handed to append_records, so that a call that returns has stored them all
\* and nothing else.
C25_DayAllOrNothing ==
    [][ call'.op = "fetch_day_to_parquet" =>
          LET response == call'.resp
              sid == call'.key
              failed == HoursThat(response, {"500", "timeout"})
          IN  /\ DOMAIN response = Range(BlockHours)
              /\ Cardinality(DOMAIN response) = 8
              /\ failed # {} => /\ call'.st = "error"
                                /\ call'.err = "fetch"
                                /\ pq' = pq
              /\ failed = {} =>
                    /\ call'.err # "fetch"
                    /\ BatchTimes(call'.batch) = FetchedTimes(response)
                    /\ call'.st = "ok" =>
                          /\ FetchedTimes(response) \subseteq StoredTimes(pq'[sid][2])
                          /\ StoredTimes(pq'[sid][2]) \ StoredTimes(pq[sid][2])
                                \subseteq FetchedTimes(response)
                          /\ pq'[sid][1] = pq[sid][1]
      ]_vars

\* A call whose last block failed after seven blocks were fetched: it raised
\* and the station's directory, empty before, is still empty.
C25_Witness ==
    /\ call.op = "fetch_day_to_parquet"
    /\ HoursThat(call.resp, {"data"}) = Range(BlockHours) \ {21}
    /\ call.resp[21].st \in {"500", "timeout"}
    /\ call.st = "error"
    /\ \A m \in Months : pq[call.key][m] = Absent

(***************************************************************************)
(* C27.  fetch_all_stations isolates the failures of the stations.         *)
(***************************************************************************)
\* fetch_all_stations has returned.
RunReturned == tasks["amedas"].pc = "sleep"

\* C27: when fetch_all_stations returns, its result has an entry for every
\* requested station id and for nothing else; every station of the list was
\* fetched, in the order of the list, whatever happened to the stations
\* before it; a station whose fetch or store raised has count 0 and a station
\* whose call returned has the count the call returned, its records being in
\* its directory; and no call touches the directory of another station.
C27_StationsIsolated ==
    /\ [](RunReturned =>
            LET job == tasks["amedas"]
            IN  /\ DOMAIN job.results = Range(station_ids)
                /\ Len(job.log) = Len(station_ids)
                /\ \A i \in 1..Len(station_ids) :
                      /\ job.log[i].sid = station_ids[i]
                      /\ job.log[i].st = "error" => job.results[station_ids[i]] = 0
                      /\ job.log[i].st = "ok" =>
                            job.results[station_ids[i]] = job.log[i].n)
    /\ [][ Len(tasks'["amedas"].log) = Len(tasks["amedas"].log) + 1 =>
             LET e == tasks'["amedas"].log[Len(tasks'["amedas"].log)]
             IN  /\ e.st = "ok" => BatchTimes(e.batch) \subseteq StoredTimes(pq'[e.sid][2])
                 /\ \A d \in DOMAIN pq \ {e.sid} : pq'[d] = pq[d]
       ]_vars

\* fetch_all_stations has returned after the fetch of the first station
\* raised: the first station counts 0, the second one was fetched and its
\* eight observations are stored.
C27_Witness ==
    /\ RunReturned
    /\ tasks["amedas"].log[1].st = "error"
    /\ tasks["amedas"].log[2].st = "ok"
    /\ tasks["amedas"].results = [s \in Range(station_ids) |->
                                    IF s = station_ids[1] THEN 0 ELSE 8]
    /\ Cardinality(StoredTimes(pq[station_ids[2]][2])) = 8

(***************************************************************************)
(* C28.  The polling schedulers do not stop because of an error.           *)
(***************************************************************************)
\* Every monthly file of the directory can be read.
Readable(dir) == \A m \in Months : pq[dir][m].st # "torn"

\* The last cycle of the SwitchBot task raised.
SwitchbotFailed == tasks["switchbot"].last = "error"

\* The task is at the top of its loop again.
SwitchbotPolls == tasks["switchbot"].pc = "poll"

SwitchbotCauseGone == ~tasks["switchbot"].failing /\ Readable(SensorDir)

\* The task sleeps after a cycle whose records append_records has stored.
SwitchbotStored == tasks["switchbot"].pc = "sleep" /\ tasks["switchbot"].last = "stored"

\* A station of the current run of fetch_all_stations has raised.
AmedasFailed ==
    \E i \in 1..Len(tasks["amedas"].log) : tasks["amedas"].log[i].st = "error"

\* The daily loop has called fetch_all_stations again.
AmedasFetches == tasks["amedas"].pc = "fetch" /\ tasks["amedas"].idx = 1

AmedasCauseGone ==
    ~tasks["amedas"].failing /\ \A i \in 1..Len(station_ids) : Readable(station_ids[i])

\* A run of fetch_all_stations has returned in which no station raised.
AmedasStored ==
    /\ RunReturned
    /\ Len(tasks["amedas"].log) = Len(station_ids)
    /\ \A i \in 1..Len(station_ids) : tasks["amedas"].log[i].st = "ok"

\* C28: in both schedulers a cycle in which the fetch or append_records raised
\* is followed by the sleep and by the next cycle; and once the cause of the
\* failures is gone (the upstream service answers, the disk can be written
\* and the partitions can be read), a later cycle stores its records: the
\* records of a SwitchBot cycle that counts as stored are in the sensor
\* directory at the end of the cycle.
C28_SchedulersGoOn ==
    /\ [](SwitchbotFailed => <>SwitchbotPolls)
    /\ [](AmedasFailed => <>AmedasFetches)
    /\ []((SwitchbotFailed /\ SwitchbotCauseGone) => <>SwitchbotStored)
    /\ []((AmedasFailed /\ AmedasCauseGone) => <>AmedasStored)
    /\ [][ (tasks["switchbot"].pc = "poll" /\ SwitchbotStored') =>
              BatchTimes(tasks'["switchbot"].batch)
                 \subseteq UNION {StoredTimes(pq'[SensorDir][m]) : m \in Months}
       ]_vars

\* Both tasks sleep after a cycle that raised, and the cause of the failures
\* is gone.
C28_Witness ==
    /\ SwitchbotFailed
    /\ tasks["switchbot"].pc = "sleep"
    /\ SwitchbotCauseGone
    /\ AmedasFailed
    /\ RunReturned
    /\ AmedasCauseGone

(***************************************************************************)
(* C29.  read_latest returns the row with the greatest timestamp.          *)
(***************************************************************************)
\* The rows of the monthly files of the directory.
DirRows == UNION {Range(pq[m].rows) : m \in {x \in Months : pq[x].st = "ok"}}

\* C29: after any sequence of append_records calls, a read_latest that
\* returns a row returns a row stored in the directory whose timestamp is the
\* greatest of all rows of all monthly files; it returns None exactly when
\* the directory is missing or no file holds a row; and it returns (rather
\* than raises) whenever every file of the directory can be read.
C29_LatestIsMaximum ==
    [][ call'.op = "read_latest" =>
          /\ (\A m \in Months : ~Unparsable(pq[m])) => call'.st = "ok"
          /\ call'.st = "ok" =>
                /\ call'.out = NoneResult <=> (~pqDir \/ DirRows = {})
                /\ call'.out # NoneResult =>
                      /\ Len(call'.out.rows) = 1
                      /\ call'.out.rows[1] \in DirRows
                      /\ \A r \in DirRows : r.t <= call'.out.rows[1].t
      ]_vars

\* The directory holds the files of January and of February, the latter with
\* two rows, and read_latest has returned the row of 2023-02-28T23:00Z.
C29_Witness ==
    /\ call.op = "read_latest"
    /\ call.st = "ok"
    /\ pq[1].st = "ok"
    /\ pq[2].st = "ok"
    /\ Len(pq[2].rows) >= 2
    /\ call.out.rows[1].t = 1415

(***************************************************************************)
(* C30.  The day summary covers the calendar day.                          *)
(***************************************************************************)
\* The stored observations of the day that begins at hour `start`.
RowsOfDay(start) ==
    {r \in UNION {Range(pq[m].rows) : m \in {x \in Months : pq[x].st = "ok"}} :
        start <= r.t /\ r.t < start + 24}

\* C30: the summary of date D aggregates exactly the stored observations with
\* D 00:00:00 <= t < (D+1) 00:00:00 UTC; the observation of 00:00:00 of the
\* following day is not among them.
C30_SummaryOfCalendarDay ==
    [][ (call'.op = "get_day_summary" /\ call'.st = "ok") =>
           /\ Range(call'.out.rows) = RowsOfDay(call'.lo)
           /\ call'.n = Cardinality(RowsOfDay(call'.lo))
           /\ \A r \in Range(call'.out.rows) : r.t # call'.lo + 24
      ]_vars

====
